---- MODULE Spec2Model ----
(***************************************************************************)
(* Model of the TSVC auto-vectorization evidence pipeline:                 *)
(*   workloads/tsvc/analyze_tsvc_vectorization.py  (the analyzer)          *)
(*   workloads/tsvc/run_tsvc.py                    (the driver)            *)
(*   workloads/tsvc/compare_tsvc_checksums.py      (the comparator)        *)
(* Strings are TLA+ strings; Python's str methods are operators over them. *)
(* An optional field of a JSON object is a record field that may be        *)
(* missing from the record's DOMAIN; Python's None for an optional integer *)
(* is the empty sequence and a present value n is <<n>>.                   *)
(***************************************************************************)
EXTENDS Integers, Sequences, FiniteSets, TLC

VARIABLES
    \* ---- reason-to-bucket mapping applied to one reason
    bk_reason, bk_bucket, bk_pc,
    \* ---- one analyzer process: its command line and input files
    args,
    \* ---- analyzer locals, named as in main()
    pc, kernels, asm_by_kernel, missing_functions, by_function, kernel_rows,
    vectorized, non_vectorized,
    \* ---- the local `chosen` of each iteration of the classification loop
    chosen_rows,
    \* ---- analyzer outputs: the files (<<>> until written, then <<content>>), the
    \* ---- order they were written in, and the exit code (<<>> while running)
    kernel_out, json_out, remarks_summary_out, gap_plan_out, report, written, exit_code,
    \* ---- one run_tsvc process
    drv,
    \* ---- one compare_tsvc_checksums process
    cmp,
    \* ---- one call of run_tsvc._stage_tsvc_sources and the kernel list written from it
    stg

bkVars == <<bk_reason, bk_bucket, bk_pc>>
anVars == <<args, pc, kernels, asm_by_kernel, missing_functions, by_function,
            kernel_rows, vectorized, non_vectorized, chosen_rows, kernel_out, json_out,
            remarks_summary_out, gap_plan_out, report, written, exit_code>>
vars == <<bk_reason, bk_bucket, bk_pc, args, pc, kernels, asm_by_kernel,
          missing_functions, by_function, kernel_rows, vectorized, non_vectorized,
          chosen_rows, kernel_out, json_out, remarks_summary_out, gap_plan_out, report, written,
          exit_code, drv, cmp, stg>>

(***************************************************************************)
(* Python string methods                                                   *)
(***************************************************************************)
Whitespace == {" ", "\t"}

startswith(s, p) == Len(s) >= Len(p) /\ SubSeq(s, 1, Len(p)) = p

contains(s, p) == \E i \in 1..(Len(s) - Len(p) + 1) : SubSeq(s, i, i + Len(p) - 1) = p

RECURSIVE lstrip(_)
lstrip(s) ==
    IF Len(s) > 0 /\ SubSeq(s, 1, 1) \in Whitespace
    THEN lstrip(SubSeq(s, 2, Len(s)))
    ELSE s

RECURSIVE rstrip(_)
rstrip(s) ==
    IF Len(s) > 0 /\ SubSeq(s, Len(s), Len(s)) \in Whitespace
    THEN rstrip(SubSeq(s, 1, Len(s) - 1))
    ELSE s

strip(s) == rstrip(lstrip(s))

UpperAlpha == "ABCDEFGHIJKLMNOPQRSTUVWXYZ"
LowerAlpha == "abcdefghijklmnopqrstuvwxyz"

\* the lower-case letter of every upper-case letter
LowerOf ==
    [c \in {SubSeq(UpperAlpha, i, i) : i \in 1..Len(UpperAlpha)} |->
        LET i == CHOOSE j \in 1..Len(UpperAlpha) : SubSeq(UpperAlpha, j, j) = c
        IN  SubSeq(LowerAlpha, i, i)]

lowerChar(c) == IF c \in DOMAIN LowerOf THEN LowerOf[c] ELSE c

RECURSIVE lower(_)
lower(s) ==
    IF Len(s) = 0 THEN s
    ELSE lowerChar(SubSeq(s, 1, 1)) \o lower(SubSeq(s, 2, Len(s)))

\* dict.get(key, default) on a JSON object
get(r, key, default) == IF key \in DOMAIN r THEN r[key] ELSE default

(***************************************************************************)
(* Gap buckets                                                             *)
(***************************************************************************)
_GAP_BUCKET_ORDER ==
    << "loop_removed_before_pass",
       "unsupported_value_expression",
       "non_affine_address",
       "inner_control_flow",
       "reductions_live_out",
       "no_store_loops",
       "other" >>

_GAP_BUCKET_ACTIONS ==
    [ loop_removed_before_pass     |-> "adjust_pass_pipeline_or_loop_preservation",
      unsupported_value_expression |-> "extend_emit_value_semantics",
      non_affine_address           |-> "extend_address_lowering_or_fallback",
      inner_control_flow           |-> "if_convert_or_predicate_lowering",
      reductions_live_out          |-> "add_reduction_and_liveout_lowering",
      no_store_loops               |-> "support_reduction_only_vector_loops",
      other                        |-> "manual_triage" ]

LoopRemovedTags == {"no_loop_candidate", "no_tripcount_expr", "tripcount_expand_failed"}

ControlFlowTags ==
    { "inner_control_flow", "complex_control_flow", "not_innermost_loop",
      "not_loop_simplify", "preheader_not_simple_branch", "unsupported_inner_backedge",
      "unsupported_branch_condition", "unsupported_branch_predicate",
      "unsupported_branch_fcmp_condition", "unsupported_terminator" }

ReductionTags ==
    { "value_live_out", "unsupported_reduction_kind", "unsupported_reduction_init",
      "unsupported_reduction_value" }

\* A plausible slip: the non-affine rule tested before the value-expression rule.
MapReasonNonAffineFirst(reason) ==
    LET text == strip(reason) IN
    IF text = "" THEN "other"
    ELSE IF text \in LoopRemovedTags THEN "loop_removed_before_pass"
    ELSE IF contains(text, "non_affine") \/ text \in {"unsupported_store_stride"}
         THEN "non_affine_address"
    ELSE IF startswith(text, "unsupported_value_expr:") THEN "unsupported_value_expression"
    ELSE IF text \in ControlFlowTags THEN "inner_control_flow"
    ELSE IF text \in ReductionTags THEN "reductions_live_out"
    ELSE IF text = "no_store_in_loop" THEN "no_store_loops"
    ELSE "other"

_map_reason_to_gap_bucket(reason) ==
    LET text == strip(reason) IN
    IF text = "" THEN "other"
    ELSE IF text \in LoopRemovedTags THEN "loop_removed_before_pass"
    ELSE IF startswith(text, "unsupported_value_expr:") THEN "unsupported_value_expression"
    ELSE IF contains(text, "non_affine") \/ text \in {"unsupported_store_stride"}
         THEN "non_affine_address"
    ELSE IF text \in ControlFlowTags THEN "inner_control_flow"
    ELSE IF text \in ReductionTags THEN "reductions_live_out"
    ELSE IF text = "no_store_in_loop" THEN "no_store_loops"
    ELSE "other"

(***************************************************************************)
(* Sequence helpers                                                        *)
(***************************************************************************)
Range(s) == {s[i] : i \in 1..Len(s)}

RECURSIVE Flatten(_)
Flatten(ss) == IF ss = <<>> THEN <<>> ELSE Head(ss) \o Flatten(Tail(ss))

\* [f(x) for x in s]
Map(s, f(_)) == [i \in 1..Len(s) |-> f(s[i])]

\* every sequence over S of length lo..hi
SeqsOf(S, lo, hi) == UNION {[1..n -> S] : n \in lo..hi}

(***************************************************************************)
(* Disassembly.  A function body is its sequence of instruction lines; a   *)
(* line is [op |-> mnemonic, arg |-> first operand].  The regular          *)
(* expressions of the analyzer are case-insensitive searches over a body.  *)
(***************************************************************************)
\* _RE_BSTART_MEM.search(body)
_RE_BSTART_MEM(body) ==
    \E i \in 1..Len(body) : lower(body[i].op) \in {"bstart.mseq", "bstart.mpar"}

\* _RE_BSTART_TILE.search(body)
_RE_BSTART_TILE(body) ==
    \E i \in 1..Len(body) : lower(body[i].op) \in {"bstart.vseq", "bstart.vpar"}

\* _RE_VEC_INSN.search(body): "v." followed by at least one name character
_RE_VEC_INSN(body) ==
    \E i \in 1..Len(body) : startswith(lower(body[i].op), "v.") /\ Len(body[i].op) > 2

IsBText(line) == lower(line.op) = "b.text" /\ line.arg # ""

\* _RE_BTEXT_TARGET.search(body)
_RE_BTEXT_TARGET(body) == \E i \in 1..Len(body) : IsBText(body[i])

\* [m.group(1) for m in _RE_BTEXT_TARGET.finditer(body)]
btext_targets(body) == Map(SelectSeq(body, IsBText), LAMBDA line : line.arg)

\* A plausible slip: the prefixed name is tried before the bare one.
LookupPrefixedFirst(functions, kernel) ==
    IF ("_" \o kernel) \in DOMAIN functions THEN <<"_" \o kernel>>
    ELSE IF kernel \in DOMAIN functions THEN <<kernel>>
    ELSE <<>>

\* Option values: None is <<>>, a value v is <<v>>
_lookup_function_name(functions, kernel) ==
    IF kernel \in DOMAIN functions THEN <<kernel>>
    ELSE IF ("_" \o kernel) \in DOMAIN functions THEN <<"_" \o kernel>>
    ELSE <<>>

\* A plausible slip: a popped name is not checked against the visited set, so a
\* function pushed twice before its first visit is appended twice.
RECURSIVE ExpandLoopRevisiting(_, _, _)
ExpandLoopRevisiting(functions, worklist, chunks) ==
    IF worklist = <<>> THEN chunks
    ELSE LET name == worklist[Len(worklist)]
             rest == SubSeq(worklist, 1, Len(worklist) - 1)
         IN  IF name \notin DOMAIN functions
             THEN ExpandLoopRevisiting(functions, rest, chunks)
             ELSE LET visited == Range(chunks) \cup {name}
                      push == SelectSeq(btext_targets(functions[name]),
                                        LAMBDA t : t \notin visited /\ t \in DOMAIN functions)
                  IN  ExpandLoopRevisiting(functions, rest \o push, Append(chunks, name))

\* The while loop of _expand_btext_reachable; chunks holds the names whose bodies
\* were appended, in order (the visited set is its range).
RECURSIVE expand_loop(_, _, _)
expand_loop(functions, worklist, chunks) ==
    IF worklist = <<>> THEN chunks
    ELSE LET name == worklist[Len(worklist)]
             rest == SubSeq(worklist, 1, Len(worklist) - 1)
         IN  IF name \in Range(chunks) THEN expand_loop(functions, rest, chunks)
             ELSE IF name \notin DOMAIN functions THEN expand_loop(functions, rest, chunks)
             ELSE LET visited == Range(chunks) \cup {name}
                      push == SelectSeq(btext_targets(functions[name]),
                                        LAMBDA t : t \notin visited /\ t \in DOMAIN functions)
                  IN  expand_loop(functions, rest \o push, Append(chunks, name))

\* the names of the closure, in the order their bodies are concatenated
closure_names(functions, root) == expand_loop(functions, <<root>>, <<>>)

\* _expand_btext_reachable: the concatenated bodies
_expand_btext_reachable(functions, root) ==
    Flatten(Map(closure_names(functions, root), LAMBDA n : functions[n]))

(***************************************************************************)
(* Remarks.  A line of the JSONL file is [kind, payload]: kind "blank" (the *)
(* stripped line is empty), "invalid" (json.loads raises), "nonobject" (a   *)
(* JSON value that is no dict) or "object", whose payload is the dict.      *)
(* The dict's values are strings, except touches_memory, a tagged value     *)
(* [t |-> "bool" | "str" | "int" | "null", v |-> its text].                 *)
(***************************************************************************)
\* A plausible slip: the loop over the lines ends at the first line that is skipped.
ParseStopsAtBadLine(remarks) ==
    IF ~remarks.given \/ ~remarks.exists THEN <<>>
    ELSE LET bad == {i \in 1..Len(remarks.lines) : remarks.lines[i].kind # "object"}
             stop == IF bad = {} THEN Len(remarks.lines) + 1
                     ELSE CHOOSE i \in bad : \A j \in bad : i <= j
         IN  Map(SubSeq(remarks.lines, 1, stop - 1), LAMBDA l : l.payload)

\* _parse_remarks_jsonl; remarks is [given, exists, lines]
_parse_remarks_jsonl(remarks) ==
    IF ~remarks.given \/ ~remarks.exists THEN <<>>
    ELSE Map(SelectSeq(remarks.lines, LAMBDA l : l.kind = "object"),
             LAMBDA l : l.payload)

\* fn = str(row.get("function", "")).strip()
row_function(row) == strip(get(row, "function", ""))

\* by_function: rows grouped by function name, file order kept inside a group
group_by_function(rows) ==
    [fn \in {row_function(rows[i]) : i \in 1..Len(rows)} \ {""} |->
        SelectSeq(rows, LAMBDA r : row_function(r) = fn)]

\* fn_candidates = (kernel, "_" + kernel); linked_rows extends by each in turn
linked_rows_of(byfn, kernel) ==
    get(byfn, kernel, <<>>) \o get(byfn, "_" \o kernel, <<>>)

\* _to_bool(value, None): "True", "False" or "None"
_to_bool(value) ==
    IF value.t = "bool" THEN (IF value.v = "true" THEN "True" ELSE "False")
    ELSE IF value.t = "str"
         THEN LET text == lower(strip(value.v)) IN
              IF text \in {"1", "true", "yes", "on"} THEN "True"
              ELSE IF text \in {"0", "false", "no", "off"} THEN "False"
              ELSE "None"
    ELSE "None"

JsonNull == [t |-> "null", v |-> "null"]

\* keys of a Counter, in first-insertion order
RECURSIVE counter_keys(_)
counter_keys(items) ==
    IF items = <<>> THEN <<>>
    ELSE LET init == counter_keys(SubSeq(items, 1, Len(items) - 1))
             last == items[Len(items)]
         IN  IF last \in Range(init) THEN init ELSE Append(init, last)

counter_count(items, key) == Cardinality({i \in 1..Len(items) : items[i] = key})

\* max(iterable, key=count): the first maximal element met
RECURSIVE max_first(_, _, _)
max_first(keys, items, best) ==
    IF keys = <<>> THEN best
    ELSE max_first(Tail(keys), items,
                   IF counter_count(items, Head(keys)) > counter_count(items, best)
                   THEN Head(keys) ELSE best)

\* A plausible slip: >= keeps the last maximal element instead of the first.
RECURSIVE max_last(_, _, _)
max_last(keys, items, best) ==
    IF keys = <<>> THEN best
    ELSE max_last(Tail(keys), items,
                  IF counter_count(items, Head(keys)) >= counter_count(items, best)
                  THEN Head(keys) ELSE best)

MostCommonLast(items) ==
    LET keys == counter_keys(items) IN max_last(Tail(keys), items, Head(keys))

\* collections.Counter(items).most_common(1)[0][0], items non-empty
most_common(items) ==
    LET keys == counter_keys(items) IN max_first(Tail(keys), items, Head(keys))

(***************************************************************************)
(* The analyzer: analyze_tsvc_vectorization.py                             *)
(***************************************************************************)
\* _read_kernel_list without its final check: the stripped lines that are
\* neither empty nor comments
_read_kernel_list(lines) ==
    SelectSeq(Map(lines, strip), LAMBDA name : name # "" /\ ~startswith(name, "#"))

\* A plausible slip: the vector-instruction flag read from the root body as well.
AsmVecAtRoot(functions, kernel) ==
    LET resolved == _lookup_function_name(functions, kernel) IN
    IF resolved = <<>>
    THEN [ kernel |-> kernel, resolved_symbol |-> <<>>,
           has_mem_block |-> FALSE, has_tile_block |-> FALSE,
           has_vec_insn |-> FALSE, has_btext |-> FALSE ]
    ELSE LET root_body == functions[resolved[1]]
         IN  [ kernel |-> kernel, resolved_symbol |-> resolved,
               has_mem_block  |-> _RE_BSTART_MEM(root_body),
               has_tile_block |-> _RE_BSTART_TILE(root_body),
               has_vec_insn   |-> _RE_VEC_INSN(root_body),
               has_btext      |-> _RE_BTEXT_TARGET(root_body) ]

\* one iteration of the evidence loop (lines 214-238): asm_by_kernel[kernel]
AsmOfKernel(functions, kernel) ==
    LET resolved == _lookup_function_name(functions, kernel) IN
    IF resolved = <<>>
    THEN [ kernel |-> kernel, resolved_symbol |-> <<>>,
           has_mem_block |-> FALSE, has_tile_block |-> FALSE,
           has_vec_insn |-> FALSE, has_btext |-> FALSE ]
    ELSE LET root_body == functions[resolved[1]]
             body == _expand_btext_reachable(functions, resolved[1])
         IN  [ kernel |-> kernel, resolved_symbol |-> resolved,
               has_mem_block  |-> _RE_BSTART_MEM(root_body),
               has_tile_block |-> _RE_BSTART_TILE(root_body),
               has_vec_insn   |-> _RE_VEC_INSN(body),
               has_btext      |-> _RE_BTEXT_TARGET(root_body) ]

is_lowered(r) == get(r, "status", "") = "lowered"
is_reject(r) == get(r, "status", "") = "reject"
has_vblock_reason(r) == startswith(get(r, "reason", ""), "lowered_vblock")

\* A plausible slip: the first lowered row, whatever its reason.
ChooseFirstLowered(lowered_rows) == lowered_rows[1]

\* next((r for r in lowered_rows if <reason starts with lowered_vblock>), lowered_rows[0])
choose_lowered(lowered_rows) ==
    LET preferred == SelectSeq(lowered_rows, has_vblock_reason) IN
    IF preferred # <<>> THEN preferred[1] ELSE lowered_rows[1]

\* A plausible slip: a reject row anywhere demotes the kernel.
DeriveRejectFirst(linked_rows) ==
    LET lowered_rows == SelectSeq(linked_rows, is_lowered)
        reject_rows == SelectSeq(linked_rows, is_reject)
    IN  IF reject_rows # <<>>
        THEN [ chosen |-> <<reject_rows[1]>>, status |-> "reject",
               reason |-> most_common(Map(reject_rows, LAMBDA r : get(r, "reason", ""))) ]
        ELSE IF lowered_rows # <<>>
        THEN LET chosen == choose_lowered(lowered_rows) IN
             [ chosen |-> <<chosen>>, status |-> "lowered",
               reason |-> get(chosen, "reason", "lowered_vblock") ]
        ELSE [ chosen |-> <<>>, status |-> "reject", reason |-> "no_remarks_for_kernel" ]

\* A plausible slip: the sentinel reason of a kernel without remarks left empty.
DeriveSentinelMissing(linked_rows) ==
    LET lowered_rows == SelectSeq(linked_rows, is_lowered)
        reject_rows == SelectSeq(linked_rows, is_reject)
    IN  IF lowered_rows # <<>>
        THEN LET chosen == choose_lowered(lowered_rows) IN
             [ chosen |-> <<chosen>>, status |-> "lowered",
               reason |-> get(chosen, "reason", "lowered_vblock") ]
        ELSE IF reject_rows # <<>>
        THEN [ chosen |-> <<reject_rows[1]>>, status |-> "reject",
               reason |-> most_common(Map(reject_rows, LAMBDA r : get(r, "reason", ""))) ]
        ELSE [ chosen |-> <<>>, status |-> "reject", reason |-> "" ]

\* chosen, status and reason of one kernel (lines 257-281)
derive(linked_rows) ==
    LET lowered_rows == SelectSeq(linked_rows, is_lowered)
        reject_rows == SelectSeq(linked_rows, is_reject)
    IN  IF lowered_rows # <<>>
        THEN LET chosen == choose_lowered(lowered_rows) IN
             [ chosen |-> <<chosen>>, status |-> "lowered",
               reason |-> get(chosen, "reason", "lowered_vblock") ]
        ELSE IF reject_rows # <<>>
        THEN [ chosen |-> <<reject_rows[1]>>, status |-> "reject",
               reason |-> most_common(Map(reject_rows, LAMBDA r : get(r, "reason", ""))) ]
        ELSE [ chosen |-> <<>>, status |-> "reject", reason |-> "no_remarks_for_kernel" ]

\* A plausible slip: any vector header accepted whatever touches_memory says.
ExpectedHeaderAny(touches_memory, has_mem_block, has_tile_block) ==
    [ has |-> has_mem_block \/ has_tile_block, kind |-> "any_vector_header" ]

\* has_expected_header and expected_header_kind (lines 289-297)
expected_header(touches_memory, has_mem_block, has_tile_block) ==
    IF touches_memory = "True"
    THEN [ has |-> has_mem_block, kind |-> "mseq_or_mpar" ]
    ELSE IF touches_memory = "False"
    THEN [ has |-> has_tile_block, kind |-> "vseq_or_vpar" ]
    ELSE [ has |-> has_mem_block \/ has_tile_block, kind |-> "any_vector_header" ]

\* A plausible slip: the b.text requirement dropped from the conjunction.
StrictWithoutBText(status, reason, has_expected_header, has_vec_insn, has_btext) ==
    (status = "lowered" /\ startswith(reason, "lowered_vblock"))
        /\ has_expected_header /\ has_vec_insn

\* strict_vectorized (lines 299-300)
strict(status, reason, has_expected_header, has_vec_insn, has_btext) ==
    LET has_strict_lowering_reason == status = "lowered" /\ startswith(reason, "lowered_vblock")
    IN  has_strict_lowering_reason /\ has_expected_header /\ has_vec_insn /\ has_btext

\* bucket of a row (line 307)
row_bucket(strict_vectorized, reason) ==
    IF strict_vectorized THEN "lowered" ELSE _map_reason_to_gap_bucket(reason)

\* one iteration of the classification loop: the row appended to kernel_rows
classify(kernel, byfn, asm) ==
    LET linked_rows == linked_rows_of(byfn, kernel)
        d == derive(linked_rows)
        touches_memory ==
            _to_bool(IF d.chosen # <<>> THEN get(d.chosen[1], "touches_memory", JsonNull)
                     ELSE JsonNull)
        eh == expected_header(touches_memory, asm.has_mem_block, asm.has_tile_block)
        strict_vectorized ==
            strict(d.status, d.reason, eh.has, asm.has_vec_insn, asm.has_btext)
    IN  [ kernel |-> kernel,
          resolved_symbol |-> asm.resolved_symbol,
          status |-> d.status,
          reason |-> d.reason,
          bucket |-> row_bucket(strict_vectorized, d.reason),
          touches_memory |-> touches_memory,
          loop_rows_total |-> Len(linked_rows),
          lowered_loops |-> Len(SelectSeq(linked_rows, is_lowered)),
          reject_loops |-> Len(SelectSeq(linked_rows, is_reject)),
          asm_has_any_vector_header |-> asm.has_mem_block \/ asm.has_tile_block,
          asm_has_mem_header |-> asm.has_mem_block,
          asm_has_tile_header |-> asm.has_tile_block,
          asm_header_expected_kind |-> eh.kind,
          asm_header_matches_policy |-> eh.has,
          asm_has_btext |-> asm.has_btext,
          asm_has_vec_insn |-> asm.has_vec_insn,
          strict_vectorized |-> strict_vectorized ]

\* bucket of a row in the gap plan (lines 382-384)
plan_bucket(row) == IF row.bucket \in Range(_GAP_BUCKET_ORDER) THEN row.bucket ELSE "other"

\* A plausible slip: the wrong action label for one bucket.
NextActionShifted(bucket) ==
    IF bucket = "no_store_loops" THEN "manual_triage" ELSE _GAP_BUCKET_ACTIONS[bucket]

\* _GAP_BUCKET_ACTIONS.get(bucket, "manual_triage")
next_action(bucket) == get(_GAP_BUCKET_ACTIONS, bucket, "manual_triage")

\* A plausible slip: the strict_vectorized rows are not skipped.
GapPlanRowsAll(rows) == rows

\* the rows the gap-plan loop does not skip (lines 378-380)
gap_plan_rows(rows) == SelectSeq(rows, LAMBDA row : ~row.strict_vectorized)

\* line 343: the coverage as the fraction num/den
coverage_of(vec_count, total) ==
    IF total # 0 THEN [num |-> 100 * vec_count, den |-> total] ELSE [num |-> 0, den |-> 1]

\* A plausible slip: the digits after the second decimal are cut off.
TruncateTwoDecimals(q) == (100 * q.num) \div q.den

\* round(coverage, 2), the result counted in hundredths.  A fraction exactly half way
\* between two hundredths needs a total that is a multiple of 32, so the tie rule of
\* round() never applies to the kernel lists explored here.
round2(q) == (200 * q.num + q.den) \div (2 * q.den)

\* coverage_payload (lines 345-363); coverage_percent is in hundredths of a percent
coverage_payload(mode, kernel_list, vec, non_vec, missing) ==
    [ mode |-> mode,
      total |-> Len(kernel_list),
      vectorized |-> Len(vec),
      non_vectorized |-> Len(non_vec),
      coverage_percent |-> round2(coverage_of(Len(vec), Len(kernel_list))),
      vectorized_kernels |-> vec,
      non_vectorized_kernels |-> non_vec,
      missing_functions |-> missing ]

\* remarks_payload (lines 367-372)
remarks_payload(mode, kernel_list, vec, rows) ==
    [ mode |-> mode,
      total_kernels |-> Len(kernel_list),
      strict_vectorized_kernels |-> Len(vec),
      rows |-> rows ]

\* gap_payload (lines 376-412); missing_functions is sorted in the file and is
\* kept here as the multiset it sorts
build_gap_payload(mode, kernel_list, vec, non_vec, missing, rows) ==
    LET pending == gap_plan_rows(rows)
        bucket_kernels ==
            [b \in Range(_GAP_BUCKET_ORDER) |->
                Map(SelectSeq(pending, LAMBDA row : plan_bucket(row) = b),
                    LAMBDA row : row.kernel)]
    IN  [ mode |-> mode,
          total_kernels |-> Len(kernel_list),
          vectorized_kernels |-> Len(vec),
          non_vectorized_kernels |-> Len(non_vec),
          missing_functions |->
              [k \in Range(missing) |-> Cardinality({i \in 1..Len(missing) : missing[i] = k})],
          bucket_counts |-> [b \in Range(_GAP_BUCKET_ORDER) |-> Len(bucket_kernels[b])],
          buckets |-> bucket_kernels,
          kernel_plan |->
              Map(pending, LAMBDA row :
                  [ kernel |-> row.kernel,
                    bucket |-> plan_bucket(row),
                    reason |-> row.reason,
                    touches_memory |-> row.touches_memory,
                    loop_rows_total |-> row.loop_rows_total,
                    next_action |-> next_action(plan_bucket(row)) ]) ]

\* the markdown report (lines 416-453): the figures it prints
report_lines(mode, kernel_list, vec, non_vec, missing, gap) ==
    [ mode |-> mode,
      total |-> Len(kernel_list),
      vectorized |-> Len(vec),
      non_vectorized |-> Len(non_vec),
      missing_functions |-> missing,
      non_vectorized_kernels |-> non_vec,
      bucket_counts |-> gap.bucket_counts ]

\* A plausible slip: <= fails a run that meets the minimum exactly.
GateAtOrBelow(fail_under, vec_count) ==
    IF fail_under # <<>> /\ vec_count <= fail_under[1] THEN 2 ELSE 0

\* the coverage gate (lines 455-467): the value main returns
coverage_gate(fail_under, vec_count) ==
    IF fail_under # <<>> /\ vec_count < fail_under[1] THEN 2 ELSE 0

(***************************************************************************)
(* Analyzer steps                                                          *)
(***************************************************************************)
\* lines 201-209: the precondition checks and the kernel list
CheckInputs ==
    /\ pc = "start"
    /\ UNCHANGED <<bkVars, drv, cmp, stg>>
    /\ LET names == _read_kernel_list(args.kernel_lines)
           fatal == ~args.objdump_exists \/ ~args.kernel_list_exists \/ names = <<>>
       IN  /\ pc' = IF fatal THEN "fatal" ELSE "evidence"
           /\ exit_code' = IF fatal THEN <<1>> ELSE <<>>
           /\ kernels' = IF fatal THEN <<>> ELSE names
    /\ UNCHANGED <<args, asm_by_kernel, missing_functions, by_function, kernel_rows,
                   vectorized, non_vectorized, chosen_rows, kernel_out, json_out,
                   remarks_summary_out, gap_plan_out, report, written>>

\* lines 211-238: the evidence loop over the kernels
CollectEvidence ==
    /\ pc = "evidence"
    /\ UNCHANGED <<bkVars, drv, cmp, stg>>
    /\ asm_by_kernel' = [k \in Range(kernels) |-> AsmOfKernel(args.functions, k)]
    /\ missing_functions' =
           SelectSeq(kernels, LAMBDA k : _lookup_function_name(args.functions, k) = <<>>)
    /\ kernel_out' =
           [k \in {x \in Range(kernels) : _lookup_function_name(args.functions, x) # <<>>} |->
               _expand_btext_reachable(args.functions,
                                       _lookup_function_name(args.functions, k)[1])]
    /\ pc' = "remarks"
    /\ UNCHANGED <<args, kernels, by_function, kernel_rows, vectorized, non_vectorized,
                   chosen_rows, json_out, remarks_summary_out, gap_plan_out, report,
                   written, exit_code>>

\* lines 240-245: the remarks are read and grouped
GroupRemarks ==
    /\ pc = "remarks"
    /\ UNCHANGED <<bkVars, drv, cmp, stg>>
    /\ by_function' = group_by_function(_parse_remarks_jsonl(args.remarks))
    /\ pc' = "classify"
    /\ UNCHANGED <<args, kernels, asm_by_kernel, missing_functions, kernel_rows,
                   vectorized, non_vectorized, chosen_rows, kernel_out, json_out,
                   remarks_summary_out, gap_plan_out, report, written, exit_code>>

\* A plausible slip: kernels without a symbol are left out of both lists.
ListsWithoutMissing(rows) ==
    [ vectorized |->
          Map(SelectSeq(rows, LAMBDA row : row.strict_vectorized), LAMBDA row : row.kernel),
      non_vectorized |->
          Map(SelectSeq(rows, LAMBDA row : ~row.strict_vectorized /\ row.resolved_symbol # <<>>),
              LAMBDA row : row.kernel) ]

\* lines 302-305: each kernel is appended to one of the two lists
kernel_lists(rows) ==
    [ vectorized |->
          Map(SelectSeq(rows, LAMBDA row : row.strict_vectorized), LAMBDA row : row.kernel),
      non_vectorized |->
          Map(SelectSeq(rows, LAMBDA row : ~row.strict_vectorized), LAMBDA row : row.kernel) ]

\* lines 247-338: the classification loop over the kernels
ClassifyKernels ==
    /\ pc = "classify"
    /\ UNCHANGED <<bkVars, drv, cmp, stg>>
    /\ LET rows == Map(kernels, LAMBDA k : classify(k, by_function, asm_by_kernel[k]))
       IN  /\ kernel_rows' = rows
           /\ vectorized' = kernel_lists(rows).vectorized
           /\ non_vectorized' = kernel_lists(rows).non_vectorized
    /\ chosen_rows' = Map(kernels, LAMBDA k : derive(linked_rows_of(by_function, k)).chosen)
    /\ pc' = "write_json"
    /\ UNCHANGED <<args, kernels, asm_by_kernel, missing_functions, by_function,
                   kernel_out, json_out, remarks_summary_out, gap_plan_out, report,
                   written, exit_code>>

\* lines 340-365
WriteCoverageJson ==
    /\ pc = "write_json"
    /\ UNCHANGED <<bkVars, drv, cmp, stg>>
    /\ json_out' = <<coverage_payload(args.mode, kernels, vectorized, non_vectorized,
                                      missing_functions)>>
    /\ written' = Append(written, "json_out")
    /\ pc' = "write_remarks"
    /\ UNCHANGED <<args, kernels, asm_by_kernel, missing_functions, by_function,
                   kernel_rows, vectorized, non_vectorized, chosen_rows, kernel_out,
                   remarks_summary_out, gap_plan_out, report, exit_code>>

\* lines 367-374
WriteRemarksSummary ==
    /\ pc = "write_remarks"
    /\ UNCHANGED <<bkVars, drv, cmp, stg>>
    /\ remarks_summary_out' = <<remarks_payload(args.mode, kernels, vectorized, kernel_rows)>>
    /\ written' = Append(written, "remarks_summary_out")
    /\ pc' = "write_gap"
    /\ UNCHANGED <<args, kernels, asm_by_kernel, missing_functions, by_function,
                   kernel_rows, vectorized, non_vectorized, chosen_rows, kernel_out,
                   json_out, gap_plan_out, report, exit_code>>

\* lines 376-414
WriteGapPlan ==
    /\ pc = "write_gap"
    /\ UNCHANGED <<bkVars, drv, cmp, stg>>
    /\ gap_plan_out' = <<build_gap_payload(args.mode, kernels, vectorized, non_vectorized,
                                           missing_functions, kernel_rows)>>
    /\ written' = Append(written, "gap_plan_out")
    /\ pc' = "write_report"
    /\ UNCHANGED <<args, kernels, asm_by_kernel, missing_functions, by_function,
                   kernel_rows, vectorized, non_vectorized, chosen_rows, kernel_out,
                   json_out, remarks_summary_out, report, exit_code>>

\* lines 416-453
WriteReport ==
    /\ pc = "write_report"
    /\ UNCHANGED <<bkVars, drv, cmp, stg>>
    /\ report' = <<report_lines(args.mode, kernels, vectorized, non_vectorized,
                                missing_functions, gap_plan_out[1])>>
    /\ written' = Append(written, "report")
    /\ pc' = "gate"
    /\ UNCHANGED <<args, kernels, asm_by_kernel, missing_functions, by_function,
                   kernel_rows, vectorized, non_vectorized, chosen_rows, kernel_out,
                   json_out, remarks_summary_out, gap_plan_out, exit_code>>

\* lines 455-467
CoverageGate ==
    /\ pc = "gate"
    /\ UNCHANGED <<bkVars, drv, cmp, stg>>
    /\ exit_code' = <<coverage_gate(args.fail_under, Len(vectorized))>>
    /\ pc' = "done"
    /\ UNCHANGED <<args, kernels, asm_by_kernel, missing_functions, by_function,
                   kernel_rows, vectorized, non_vectorized, chosen_rows, kernel_out,
                   json_out, remarks_summary_out, gap_plan_out, report, written>>

AnalyzerNext ==
    \/ CheckInputs
    \/ CollectEvidence
    \/ GroupRemarks
    \/ ClassifyKernels
    \/ WriteCoverageJson
    \/ WriteRemarksSummary
    \/ WriteGapPlan
    \/ WriteReport
    \/ CoverageGate

(***************************************************************************)
(* Inputs of the analyzer runs explored                                    *)
(***************************************************************************)
MaxRows == 3
MaxBody == 2

Line(op, arg) == [op |-> op, arg |-> arg]

\* a JSON object with the optional keys reason and touches_memory
Opt(key, values) == {[k \in {} |-> ""]} \cup {[k \in {key} |-> v] : v \in values}

Rows(fns, statuses, reasons, tms) ==
    { [function |-> fn] @@ st @@ rs @@ tm :
        fn \in fns, st \in statuses, rs \in reasons, tm \in tms }

Present(key, values) == {[k \in {key} |-> v] : v \in values}
Absent == {[k \in {} |-> ""]}

TmBool == {[t |-> "bool", v |-> "true"], [t |-> "bool", v |-> "false"]}
TmOther == { [t |-> "str", v |-> " Yes "], [t |-> "str", v |-> "off"],
            [t |-> "str", v |-> "maybe"], [t |-> "int", v |-> "1"] }

ObjectLines(rows) == {[kind |-> "object", payload |-> r] : r \in rows}
NoiseLines ==
    { [kind |-> k, payload |-> [x \in {} |-> ""]] : k \in {"blank", "invalid", "nonobject"} }

RemarksFile(lines) == [given |-> TRUE, exists |-> TRUE, lines |-> lines]

\* a root body showing exactly the given markers
BodyOfFlags(mem, tile, vec, btext) ==
    (IF mem THEN <<Line("bstart.mseq", "")>> ELSE <<>>)
    \o (IF tile THEN <<Line("BSTART.VPAR", "")>> ELSE <<>>)
    \o (IF btext THEN <<Line("b.text", "s1.body")>> ELSE <<>>)
    \o (IF vec THEN <<Line("v.add", "")>> ELSE <<>>)
    \o <<Line("ret", "")>>

FlagBodies == {BodyOfFlags(m, t, v, b) : m \in BOOLEAN, t \in BOOLEAN, v \in BOOLEAN, b \in BOOLEAN}
NoFunctions == [n \in {} |-> <<>>]
Fn(name, body) == [n \in {name} |-> body]

Run(kernel_lines, functions, remarks, fail_under) ==
    [ objdump_exists |-> TRUE, kernel_list_exists |-> TRUE, kernel_lines |-> kernel_lines,
      functions |-> functions, remarks |-> remarks, mode |-> "auto",
      fail_under |-> fail_under ]

\* one kernel, every combination of evidence flags, at most one remark of any shape
RunsEvidenceByRemark ==
    { Run(<<"s1">>, f, RemarksFile(ls), <<>>) :
        f \in {Fn("s1", b) : b \in FlagBodies} \cup {NoFunctions},
        ls \in SeqsOf(ObjectLines(Rows({"s1"},
                                        Present("status", {"lowered", "reject"}),
                                        Opt("reason", {"lowered_vblock_memseq", "no_store_in_loop"}),
                                        Opt("touches_memory", TmBool \cup TmOther))), 0, 1) }

\* one kernel with two remarks that may disagree about touches_memory
RunsTwoRemarks ==
    { Run(<<"s1">>, Fn("s1", b), RemarksFile(ls), <<>>) :
        b \in {BodyOfFlags(TRUE, FALSE, TRUE, TRUE), BodyOfFlags(FALSE, TRUE, TRUE, TRUE),
               BodyOfFlags(TRUE, TRUE, TRUE, TRUE)},
        ls \in SeqsOf(ObjectLines(Rows({"s1"},
                                        Present("status", {"lowered", "reject"}),
                                        Present("reason", {"lowered_vblock_memseq", "no_store_in_loop"}),
                                        Opt("touches_memory", TmBool))), 2, 2) }

\* one kernel, up to MaxRows remarks under its bare and its prefixed name
RunsRemarkOrder ==
    { Run(<<"s1">>, Fn("_s1", BodyOfFlags(TRUE, FALSE, TRUE, TRUE)), RemarksFile(ls), <<>>) :
        ls \in SeqsOf(ObjectLines(
                           Rows({"s1", "_s1"}, Present("status", {"lowered"}),
                                Opt("reason", {"lowered_vblock_memseq"}), Absent)
                           \cup Rows({"s1", "_s1"}, Present("status", {"reject"}),
                                     Opt("reason", {"no_store_in_loop", "value_live_out"}),
                                     Absent)), 0, MaxRows) }

\* remarks that name other functions or carry another status
RunsForeignRemarks ==
    { Run(<<"s1">>, f, RemarksFile(ls), <<>>) :
        f \in {Fn("s1", BodyOfFlags(TRUE, TRUE, TRUE, TRUE)), NoFunctions},
        ls \in SeqsOf(ObjectLines(Rows({"s1", "zz", " s1 "},
                                        Opt("status", {"lowered", "reject", "remark"}),
                                        Present("reason", {"lowered_vblock_memseq", "no_store_in_loop"}),
                                        Absent)), 0, 2) }

\* the lines a root body is drawn from, and the helper functions beside it
RootLines ==
    { Line("bstart.mseq", ""), Line("v.add", ""), Line("b.text", "h"), Line("b.text", "g"),
      Line("b.text", "nowhere"), Line("B.TEXT", "s1") }
HelperBodies(other) ==
    { <<Line("bstart.mpar", "")>>, <<Line("bstart.vseq", "")>>, <<Line("V.MUL", "")>>,
      <<Line("b.text", other)>>, <<Line("b.text", "s1")>>, <<Line("b.text", "")>> }
Helper(name, other) == {NoFunctions} \cup {Fn(name, b) : b \in HelperBodies(other)}

\* one kernel whose closure may reach up to two helper functions
RunsClosure ==
    { Run(<<"s1">>, Fn(root, b) @@ h @@ g,
          RemarksFile(<<[kind |-> "object",
                         payload |-> [function |-> "s1", status |-> "lowered",
                                      reason |-> "lowered_vblock_memseq"]]>>), <<>>) :
        root \in {"s1", "_s1"}, b \in SeqsOf(RootLines, 0, MaxBody),
        h \in Helper("h", "g"), g \in Helper("g", "h") }

GoodRoot == BodyOfFlags(TRUE, FALSE, TRUE, TRUE)

\* several kernels, a kernel list with blanks, comments and a repeated name, a minimum
RunsGate ==
    { Run(kl, Fn("s1", GoodRoot) @@ s2, RemarksFile(ls), fu) :
        kl \in {<<"s1", "s2">>, <<"s2", "s1", "s2">>, <<" s1 ", "", "# tsvc", "s2">>},
        s2 \in {Fn("s2", GoodRoot), NoFunctions},
        ls \in SeqsOf(ObjectLines(Rows({"s1", "s2"},
                                        Present("status", {"lowered", "reject"}),
                                        Present("reason", {"lowered_vblock_memseq",
                                                           "unsupported_value_expr:non_affine",
                                                           "no_store_in_loop"}),
                                        Absent)), 0, 2),
        fu \in {<<>>, <<0>>, <<1>>, <<2>>, <<3>>} }

\* missing inputs, an empty kernel list, no remarks file, a remarks file with noise
RunsEdge ==
    { [ objdump_exists |-> oe, kernel_list_exists |-> ke, kernel_lines |-> kl,
        functions |-> Fn("s1", GoodRoot), remarks |-> rm, mode |-> "mseq",
        fail_under |-> fu ] :
        oe \in BOOLEAN, ke \in BOOLEAN,
        kl \in {<<"s1">>, <<>>, <<"", "  ", "#s1">>},
        rm \in { [given |-> FALSE, exists |-> FALSE, lines |-> <<>>],
                 [given |-> TRUE, exists |-> FALSE, lines |-> <<>>] }
               \cup { RemarksFile(ls) :
                         ls \in SeqsOf(NoiseLines \cup ObjectLines(
                                   {[function |-> "s1", status |-> "lowered",
                                     reason |-> "lowered_vblock_mempar"]}), 0, 2) },
        fu \in {<<>>, <<1>>, <<-1>>} }

\* two kernels; the first may have a function under its bare name, under one leading
\* underscore and under two, each with a body of its own
RunsResolve ==
    { Run(<<"s1", "s2">>, bare @@ one @@ two @@ Fn("s2", GoodRoot),
          RemarksFile(<<[kind |-> "object",
                         payload |-> [function |-> "s2", status |-> "lowered",
                                      reason |-> "lowered_vblock_memseq"]]>>), <<>>) :
        bare \in {NoFunctions, Fn("s1", BodyOfFlags(TRUE, FALSE, FALSE, FALSE))},
        one \in {NoFunctions, Fn("_s1", BodyOfFlags(FALSE, TRUE, FALSE, FALSE))},
        two \in {NoFunctions, Fn("__s1", BodyOfFlags(FALSE, FALSE, TRUE, TRUE))} }

\* a remarks file of MaxRows lines, each a blank line, a line that is no JSON, a JSON
\* value that is no object, or a record of one of two functions
RunsNoisy ==
    { Run(<<"s1">>, Fn("s1", GoodRoot), RemarksFile(ls), <<>>) :
        ls \in SeqsOf(NoiseLines \cup ObjectLines(
                  { [function |-> "s1", status |-> "lowered",
                     reason |-> "lowered_vblock_memseq"],
                    [function |-> "s1", status |-> "reject", reason |-> "no_store_in_loop"],
                    [function |-> "zz", status |-> "reject", reason |-> "value_live_out"] }),
                  MaxRows, MaxRows) }

AnalyzerRuns ==
    RunsEvidenceByRemark \cup RunsTwoRemarks \cup RunsRemarkOrder \cup RunsForeignRemarks
        \cup RunsClosure \cup RunsGate \cup RunsEdge \cup RunsResolve \cup RunsNoisy

AnalyzerInit ==
    /\ args \in AnalyzerRuns
    /\ pc = "start"
    /\ kernels = <<>>
    /\ asm_by_kernel = <<>>
    /\ missing_functions = <<>>
    /\ by_function = <<>>
    /\ kernel_rows = <<>>
    /\ vectorized = <<>>
    /\ non_vectorized = <<>>
    /\ chosen_rows = <<>>
    /\ kernel_out = <<>>
    /\ json_out = <<>>
    /\ remarks_summary_out = <<>>
    /\ gap_plan_out = <<>>
    /\ report = <<>>
    /\ written = <<>>
    /\ exit_code = <<>>

BucketIdle == bk_reason = "" /\ bk_bucket = "" /\ bk_pc = "idle"

AnalyzerIdle ==
    /\ args = [mode |-> "idle"]
    /\ pc = "idle"
    /\ kernels = <<>>
    /\ asm_by_kernel = <<>>
    /\ missing_functions = <<>>
    /\ by_function = <<>>
    /\ kernel_rows = <<>>
    /\ vectorized = <<>>
    /\ non_vectorized = <<>>
    /\ chosen_rows = <<>>
    /\ kernel_out = <<>>
    /\ json_out = <<>>
    /\ remarks_summary_out = <<>>
    /\ gap_plan_out = <<>>
    /\ report = <<>>
    /\ written = <<>>
    /\ exit_code = <<>>

(***************************************************************************)
(* The reason-to-bucket mapping applied to one reason                      *)
(***************************************************************************)
ReasonVocabulary ==
    LoopRemovedTags \cup ControlFlowTags \cup ReductionTags
        \cup { "unsupported_value_expr:fdiv", "non_affine_base", "unsupported_store_stride",
               "no_store_in_loop" }

\* vocabulary reasons, other reasons, and both with padding or a tail
BucketReasons ==
    { pre \o core \o tail :
        pre \in {"", " "},
        core \in ReasonVocabulary
                   \cup { "", "lowered_vblock_memseq", "no_remarks_for_kernel", "reject_unknown",
                          "unsupported_value_expr", "NON_AFFINE", "store" },
        tail \in {"", "\t", ":non_affine", "_x"} }

BucketInit ==
    /\ bk_reason \in BucketReasons
    /\ bk_bucket = ""
    /\ bk_pc = "ready"

MapReason ==
    /\ bk_pc = "ready"
    /\ bk_bucket' = _map_reason_to_gap_bucket(bk_reason)
    /\ bk_pc' = "mapped"
    /\ UNCHANGED <<bk_reason, anVars, drv, cmp, stg>>

(***************************************************************************)
(* run_tsvc.py: logs, checksum comparison, compiler flags                  *)
(***************************************************************************)
\* A plausible slip: the automatic strategy moved to the front of the mode list.
ModesAutoFirst == <<"auto", "off", "mseq", "mpar">>

_VECTOR_MODES == <<"off", "mseq", "mpar", "auto">>

\* a log line: row says whether _RE_TSVC_ROW matches it, and with which groups
LogRow(kernel, time, checksum) ==
    [row |-> TRUE, kernel |-> kernel, time |-> time, checksum |-> checksum]
LogNoise(text) == [row |-> FALSE, kernel |-> text, time |-> "", checksum |-> ""]

\* token in out_text
has_token(text, token) ==
    \E i \in 1..Len(text) :
        contains(text[i].kernel, token) \/ contains(text[i].time, token)
            \/ contains(text[i].checksum, token)

\* index of the first matching row that names the kernel
first_row(text, kernel) ==
    CHOOSE i \in 1..Len(text) :
        /\ text[i].row /\ text[i].kernel = kernel
        /\ \A j \in 1..(i - 1) : ~(text[j].row /\ text[j].kernel = kernel)

\* run_tsvc._parse_kernel_checksums: first checksum of every expected kernel
_parse_kernel_checksums(stdout_text, expected_kernels) ==
    LET found == { k \in Range(expected_kernels) :
                     \E i \in 1..Len(stdout_text) :
                         stdout_text[i].row /\ stdout_text[i].kernel = k }
    IN  [k \in found |-> stdout_text[first_row(stdout_text, k)].checksum]

\* index of the last matching row that names the kernel
last_row(text, kernel) ==
    CHOOSE i \in 1..Len(text) :
        /\ text[i].row /\ text[i].kernel = kernel
        /\ \A j \in (i + 1)..Len(text) : ~(text[j].row /\ text[j].kernel = kernel)

\* A plausible slip: a later row of a kernel replaces the earlier one.
ParseLogLastWins(text) ==
    LET found == { text[i].kernel : i \in {j \in 1..Len(text) :
                                             text[j].row /\ text[j].kernel # "Loop"} }
    IN  [k \in found |-> [ time |-> text[last_row(text, k)].time,
                           checksum |-> text[last_row(text, k)].checksum ]]

\* compare_tsvc_checksums._parse_log: first row of every kernel but "Loop"
_parse_log(text) ==
    LET found == { text[i].kernel : i \in {j \in 1..Len(text) :
                                             text[j].row /\ text[j].kernel # "Loop"} }
    IN  [k \in found |-> [ time |-> text[first_row(text, k)].time,
                           checksum |-> text[first_row(text, k)].checksum ]]

(***************************************************************************)
(* The comparator reads raw log lines.  _RE_TSVC_ROW is, anchored at both   *)
(* ends: optional whitespace, an identifier (a letter or underscore, then  *)
(* letters, digits and underscores), whitespace, a run of non-whitespace,  *)
(* whitespace, a run of non-whitespace, optional whitespace.  It is        *)
(* matched from the left: each repetition takes the longest run of its     *)
(* class, and since every repetition is followed by the complementary      *)
(* class (or by the end of the line) no shorter run can match either.      *)
(***************************************************************************)
Digits == {"0", "1", "2", "3", "4", "5", "6", "7", "8", "9"}

\* the characters of identifiers in code point order
OrdChars == "0123456789ABCDEFGHIJKLMNOPQRSTUVWXYZ_abcdefghijklmnopqrstuvwxyz"

\* the rank of a character in that order
OrdOf ==
    [c \in {SubSeq(OrdChars, i, i) : i \in 1..Len(OrdChars)} |->
        CHOOSE j \in 1..Len(OrdChars) : SubSeq(OrdChars, j, j) = c]

\* character classes of the pattern: \s, \S and [A-Za-z0-9_]
InClass(c, class) ==
    CASE class = "space" -> c \in Whitespace
      [] class = "nonspace" -> c \notin Whitespace
      [] class = "word" -> c \in DOMAIN OrdOf

\* the index after the longest run of the class that starts at index i
RECURSIVE span(_, _, _)
span(line, i, class) ==
    IF i <= Len(line) /\ InClass(SubSeq(line, i, i), class)
    THEN span(line, i + 1, class)
    ELSE i

\* _RE_TSVC_ROW.match(raw): the three groups of a matching line
_RE_TSVC_ROW(raw) ==
    LET g1 == span(raw, 1, "space")
        e1 == span(raw, g1, "word")
        g2 == span(raw, e1, "space")
        e2 == span(raw, g2, "nonspace")
        g3 == span(raw, e2, "space")
        e3 == span(raw, g3, "nonspace")
        end == span(raw, e3, "space")
        m == /\ e1 > g1 /\ SubSeq(raw, g1, g1) \notin Digits
             /\ g2 > e1 /\ e2 > g2 /\ g3 > e2 /\ e3 > g3
             /\ end = Len(raw) + 1
    IN  IF m
        THEN LogRow(SubSeq(raw, g1, e1 - 1), SubSeq(raw, g2, e2 - 1),
                    SubSeq(raw, g3, e3 - 1))
        ELSE LogNoise(raw)

\* Path.read_text(...).splitlines() followed by the match of every line
match_lines(raw_lines) == Map(raw_lines, _RE_TSVC_ROW)

\* a < b for Python strings of identifier characters
RECURSIVE str_lt(_, _)
str_lt(a, b) ==
    IF b = "" THEN FALSE
    ELSE IF a = "" THEN TRUE
    ELSE LET x == OrdOf[SubSeq(a, 1, 1)]
             y == OrdOf[SubSeq(b, 1, 1)]
         IN  IF x # y THEN x < y
             ELSE str_lt(SubSeq(a, 2, Len(a)), SubSeq(b, 2, Len(b)))

\* sorted(names)
RECURSIVE sorted(_)
sorted(names) ==
    IF names = {} THEN <<>>
    ELSE LET least == CHOOSE n \in names : \A o \in names \ {n} : str_lt(n, o)
         IN  <<least>> \o sorted(names \ {least})

\* A plausible slip: without a kernel list only the baseline's kernels are compared.
KernelsOfBaseline(baseline_rows, candidate_rows, kernel_filter) ==
    IF kernel_filter = <<>>
    THEN sorted(DOMAIN baseline_rows)
    ELSE kernel_filter[1]

\* the kernels compared: the kernel list if one was given, else every kernel
\* of either log in sorted order
compared_kernels(baseline_rows, candidate_rows, kernel_filter) ==
    IF kernel_filter = <<>>
    THEN sorted(DOMAIN baseline_rows \cup DOMAIN candidate_rows)
    ELSE kernel_filter[1]

\* A plausible slip: a kernel that has no row in one log is skipped silently.
MissingDropped(baseline_rows, candidate_rows, kernel_list) ==
    [ kernels_compared |-> Len(kernel_list),
      baseline_kernels_found |-> Cardinality(DOMAIN baseline_rows),
      candidate_kernels_found |-> Cardinality(DOMAIN candidate_rows),
      missing_in_baseline |-> <<>>,
      missing_in_candidate |-> <<>>,
      checksum_mismatch_count |-> 0,
      checksum_mismatches |-> <<>>,
      ok |-> TRUE ]

\* the missing lists, the mismatches and the payload built from them
compare_payload(baseline_rows, candidate_rows, kernel_list) ==
    LET missing_in_baseline ==
            SelectSeq(kernel_list, LAMBDA k : k \notin DOMAIN baseline_rows)
        missing_in_candidate ==
            SelectSeq(kernel_list, LAMBDA k : k \notin DOMAIN candidate_rows)
        differing ==
            SelectSeq(kernel_list, LAMBDA k :
                /\ k \in DOMAIN baseline_rows
                /\ k \in DOMAIN candidate_rows
                /\ baseline_rows[k].checksum # candidate_rows[k].checksum)
        mismatches ==
            Map(differing, LAMBDA k :
                [ kernel |-> k,
                  baseline_checksum |-> baseline_rows[k].checksum,
                  candidate_checksum |-> candidate_rows[k].checksum,
                  baseline_time |-> baseline_rows[k].time,
                  candidate_time |-> candidate_rows[k].time ])
    IN  [ kernels_compared |-> Len(kernel_list),
          baseline_kernels_found |-> Cardinality(DOMAIN baseline_rows),
          candidate_kernels_found |-> Cardinality(DOMAIN candidate_rows),
          missing_in_baseline |-> missing_in_baseline,
          missing_in_candidate |-> missing_in_candidate,
          checksum_mismatch_count |-> Len(mismatches),
          checksum_mismatches |-> mismatches,
          ok |-> /\ missing_in_baseline = <<>>
                 /\ missing_in_candidate = <<>>
                 /\ mismatches = <<>> ]

\* the markdown report of a payload
compare_report_lines(payload) ==
    [ kernels_compared |-> payload.kernels_compared,
      missing_in_baseline |-> Len(payload.missing_in_baseline),
      missing_in_candidate |-> Len(payload.missing_in_candidate),
      checksum_mismatches |-> payload.checksum_mismatch_count,
      status |-> IF payload.ok THEN "PASS" ELSE "FAIL",
      missing_in_baseline_section |-> payload.missing_in_baseline,
      missing_in_candidate_section |-> payload.missing_in_candidate,
      checksum_mismatches_section |->
          Map(payload.checksum_mismatches, LAMBDA row :
              [ kernel |-> row.kernel,
                baseline |-> row.baseline_checksum,
                candidate |-> row.candidate_checksum ]) ]

\* A plausible slip: the gate fails whenever the comparison is not ok.
ExitCodeIgnoringFlag(fail_on_mismatch, payload) == IF ~payload.ok THEN 2 ELSE 0

\* the value main() returns after the outputs were written
compare_exit_code(fail_on_mismatch, payload) ==
    IF fail_on_mismatch /\ ~payload.ok THEN 2 ELSE 0

\* compare_tsvc_checksums.main as the driver runs it, with --kernel-list,
\* --json-out and --report-out, on logs whose lines are already matched:
\* the exit code and the payload written to both outputs
compare_main(baseline, candidate, kernel_lines, fail_on_mismatch) ==
    IF baseline = <<>> \/ candidate = <<>>
    THEN [returncode |-> 1, payload |-> <<>>]
    ELSE
    LET baseline_rows == _parse_log(baseline[1])
        candidate_rows == _parse_log(candidate[1])
        kernel_filter == <<_read_kernel_list(kernel_lines)>>
        payload == compare_payload(baseline_rows, candidate_rows,
                       compared_kernels(baseline_rows, candidate_rows, kernel_filter))
    IN  [ returncode |-> compare_exit_code(fail_on_mismatch, payload),
          payload |-> <<payload>> ]

\* A plausible slip: the mode tag is passed through as the strategy name.
ModeTagAsStrategy(mode) ==
    IF mode = "off" THEN [error |-> FALSE, strategy |-> <<>>]
    ELSE IF mode \in {"mseq", "mpar", "auto"} THEN [error |-> FALSE, strategy |-> <<mode>>]
    ELSE [error |-> TRUE, strategy |-> <<>>]

\* _mode_to_autovec: the strategy of a mode, none for off, an error otherwise
_mode_to_autovec(mode) ==
    IF mode = "off" THEN [error |-> FALSE, strategy |-> <<>>]
    ELSE IF mode = "mseq" THEN [error |-> FALSE, strategy |-> <<"mseq">>]
    ELSE IF mode = "mpar" THEN [error |-> FALSE, strategy |-> <<"mpar-safe">>]
    ELSE IF mode = "auto" THEN [error |-> FALSE, strategy |-> <<"auto">>]
    ELSE [error |-> TRUE, strategy |-> <<>>]

\* _mode_compile_flags
_mode_compile_flags(mode, remarks_jsonl) ==
    LET autovec_mode == _mode_to_autovec(mode) IN
    IF autovec_mode.error THEN [error |-> TRUE, flags |-> <<>>]
    ELSE [ error |-> FALSE,
           flags |->
               <<"-fno-vectorize", "-fno-slp-vectorize">>
               \o (IF autovec_mode.strategy = <<>>
                   THEN <<"-mllvm", "-linx-simt-autovec=0">>
                   ELSE <<"-mllvm", "-linx-simt-autovec=1", "-mllvm",
                          "-linx-simt-autovec-mode=" \o autovec_mode.strategy[1]>>
                        \o (IF remarks_jsonl # <<>>
                            THEN <<"-mllvm", "-linx-simt-autovec-remarks=" \o remarks_jsonl[1]>>
                            ELSE <<>>)) ]

(***************************************************************************)
(* run_tsvc.py: files of a run                                             *)
(***************************************************************************)
KernelListTxt == "kernel_list.txt"
RawRemarks(mode) == "vectorization_remarks_raw." \o mode \o ".jsonl"
ObjdumpTxt(mode) == "tsvc." \o mode \o ".objdump.txt"
QemuStdout(mode) == "tsvc." \o mode \o ".stdout.txt"
QemuStderr(mode) == "tsvc." \o mode \o ".stderr.txt"
CoverageMd(mode) == "vectorization_coverage." \o mode \o ".md"
CoverageJson(mode) == "vectorization_coverage." \o mode \o ".json"
RemarksSummaryJson(mode) == "vectorization_remarks." \o mode \o ".json"
GapPlanJson(mode) == "vectorization_gap_plan." \o mode \o ".json"
ChecksumJson(mode) == "checksum_compare." \o mode \o ".json"
ChecksumMd(mode) == "checksum_compare." \o mode \o ".md"
GateJson(mode) == "gate_result." \o mode \o ".json"
LatestCoverageMd == "vectorization_coverage.md"
LatestCoverageJson == "vectorization_coverage.json"
LatestRemarksSummary == "vectorization_remarks.json"
LatestGapPlan == "vectorization_gap_plan.json"
LatestRawRemarks == "vectorization_remarks_raw.jsonl"
LatestGateJson == "gate_result.json"
SummaryMd == "tsvc_report.md"

\* write_text / write_bytes and unlink on the output tree
Put(files, name, content) ==
    [n \in DOMAIN files \cup {name} |-> IF n = name THEN content ELSE files[n]]
PutAll(files, more) ==
    [n \in DOMAIN files \cup DOMAIN more |-> IF n \in DOMAIN more THEN more[n] ELSE files[n]]
Unlink(files, name) == [n \in DOMAIN files \ {name} |-> files[n]]

\* selected_mode (line 912)
selected_mode_of(results, modes) ==
    IF "auto" \in DOMAIN results THEN "auto" ELSE modes[Len(modes)]

DriverIdle == drv = [pc |-> "idle"]

CompareIdle == cmp = [pc |-> "idle"]

StageIdle == stg = [pc |-> "idle"]

Init == AnalyzerInit /\ BucketIdle /\ DriverIdle /\ CompareIdle /\ StageIdle
Next == AnalyzerNext
Spec == Init /\ [][Next]_vars

\* the analyzer over the runs that vary the kernel list, the symbols the kernels
\* resolve to and the lines of the remarks file
IngestRuns == RunsGate \cup RunsEdge \cup RunsResolve \cup RunsNoisy

SpecIngestInit ==
    /\ args \in IngestRuns
    /\ pc = "start"
    /\ kernels = <<>>
    /\ asm_by_kernel = <<>>
    /\ missing_functions = <<>>
    /\ by_function = <<>>
    /\ kernel_rows = <<>>
    /\ vectorized = <<>>
    /\ non_vectorized = <<>>
    /\ chosen_rows = <<>>
    /\ kernel_out = <<>>
    /\ json_out = <<>>
    /\ remarks_summary_out = <<>>
    /\ gap_plan_out = <<>>
    /\ report = <<>>
    /\ written = <<>>
    /\ exit_code = <<>>
    /\ BucketIdle /\ DriverIdle /\ CompareIdle /\ StageIdle
SpecIngestNext == AnalyzerNext
SpecIngest == SpecIngestInit /\ [][SpecIngestNext]_vars

SpecBucketInit == BucketInit /\ AnalyzerIdle /\ DriverIdle /\ CompareIdle /\ StageIdle
SpecBucketNext == MapReason
SpecBucket == SpecBucketInit /\ [][SpecBucketNext]_vars

(***************************************************************************)
(* The compiler and the simulator a run is explored with                   *)
(***************************************************************************)
PlainRoot == BodyOfFlags(FALSE, FALSE, FALSE, FALSE)

RemarkLine(fn, status, reason) ==
    [kind |-> "object", payload |-> [function |-> fn, status |-> status, reason |-> reason]]

\* what the compiler may produce for a mode: every kernel vectorized with its
\* remarks, no kernel lowered, or vector code without a remarks stream
BuildVectorized ==
    [ functions |-> Fn("s1", GoodRoot) @@ Fn("s2", GoodRoot),
      remarks |-> << <<RemarkLine("s1", "lowered", "lowered_vblock_memseq"),
                       RemarkLine("s2", "lowered", "lowered_vblock_memseq")>> >> ]
BuildScalar ==
    [ functions |-> Fn("s1", PlainRoot) @@ Fn("s2", GoodRoot),
      remarks |-> << <<RemarkLine("s1", "reject", "no_store_in_loop"),
                       RemarkLine("s2", "reject", "unsupported_value_expr:non_affine")>> >> ]
BuildSilent ==
    [ functions |-> Fn("s1", GoodRoot) @@ Fn("s2", GoodRoot), remarks |-> <<>> ]

\* the compilers the runs are explored with
Toolchain(tag) ==
    IF tag = "vectorizing" THEN {BuildVectorized}
    ELSE IF tag = "remarking" THEN {BuildVectorized, BuildScalar}
    ELSE {BuildVectorized, BuildScalar, BuildSilent}

LogHeader == LogRow("Loop", "Time(sec)", "Checksum")
LogOf(c1) == <<LogHeader, LogRow("s1", "0.1", c1), LogRow("s2", "0.2", "7.0"),
               LogRow("s1", "0.3", "9.9")>>

\* what the simulator may do with an image
Executions ==
    { [returncode |-> 0, timed_out |-> FALSE, stdout |-> LogOf(c), stderr |-> ""] :
        c \in {"1.5", "2.5"} }
    \cup { [returncode |-> 0, timed_out |-> FALSE,
            stdout |-> <<LogNoise("boot"), LogRow("s1", "0.1", "1.5"),
                         LogRow("s2", "0.2", "7.0")>>, stderr |-> ""],
           [returncode |-> 0, timed_out |-> FALSE,
            stdout |-> <<LogHeader, LogRow("s1", "0.1", "1.5")>>, stderr |-> ""],
           [returncode |-> 1, timed_out |-> FALSE,
            stdout |-> <<LogHeader>>, stderr |-> "trap"],
           [returncode |-> 0, timed_out |-> TRUE,
            stdout |-> <<LogHeader, LogRow("s1", "0.1", "1.5")>>, stderr |-> ""] }

(***************************************************************************)
(* run_tsvc.py main: one run of the driver                                 *)
(***************************************************************************)
\* raise SystemExit(message): the process exits with status 1
Abort(d, message) == [d EXCEPT !.pc = "exited", !.exit = <<1>>, !.error = message]

CurrentMode == drv.modes[drv.mode_idx]

\* the steps a run has started, in order: each with the mode it belongs to ("" before
\* the mode loop)
Step(name, mode, d) == [d EXCEPT !.steps = Append(drv.steps, <<name, mode>>)]

\* lines 694-736: argument and tool checks
DrvPreflight ==
    /\ drv.pc = "start"
    /\ UNCHANGED <<bkVars, cmp, stg>>
    /\ drv' = IF ~drv.args.tools_ok
              THEN Abort(drv, "tool not found")
              ELSE IF drv.args.compare_baseline_log # <<>> /\ drv.args.no_run_qemu
              THEN Abort(drv, "--compare-baseline-log requires QEMU execution")
              ELSE [drv EXCEPT !.pc = "stage"]
    /\ UNCHANGED anVars

\* lines 738-764: the sources are staged and kernel_list.txt is written
DrvStage ==
    /\ drv.pc = "stage"
    /\ UNCHANGED <<bkVars, cmp, stg>>
    /\ drv' = Step("stage", "",
        IF drv.args.staged = <<>>
              THEN Abort(drv, "failed to extract TSVC kernel list")
              ELSE [drv EXCEPT !.pc = "runtime",
                               !.kernels = drv.args.staged,
                               !.files = Put(@, KernelListTxt, drv.args.staged),
                               !.wrote = @ \cup {KernelListTxt}])
    /\ UNCHANGED anVars

\* lines 766-779: the runtime objects are built and the mode list is fixed
DrvBuildRuntime ==
    /\ drv.pc = "runtime"
    /\ UNCHANGED <<bkVars, cmp, stg>>
    /\ \E ok \in BOOLEAN :
        drv' = Step("runtime", "",
        IF ~ok
               THEN Abort(drv, "compile failed")
               ELSE [drv EXCEPT !.pc = "mode_begin",
                                !.modes = IF drv.args.vector_mode = "all"
                                          THEN _VECTOR_MODES
                                          ELSE <<drv.args.vector_mode>>,
                                !.mode_idx = 1])
    /\ UNCHANGED anVars

\* lines 781-788: the remarks path of the mode; a raw remarks file left there is removed
DrvModeBegin ==
    /\ drv.pc = "mode_begin"
    /\ UNCHANGED <<bkVars, cmp, stg>>
    /\ drv' = IF CurrentMode # "off"
              THEN [drv EXCEPT !.pc = "compile",
                               !.remarks_jsonl = <<RawRemarks(CurrentMode)>>,
                               !.files = Unlink(@, RawRemarks(CurrentMode)),
                               !.observed_kernels = <<>>,
                               !.checksums = <<>>]
              ELSE [drv EXCEPT !.pc = "compile",
                               !.remarks_jsonl = <<>>,
                               !.observed_kernels = <<>>,
                               !.checksums = <<>>]
    /\ UNCHANGED anVars

\* lines 790-819: tsvc.c, common.c and dummy.c are compiled; the compiler writes
\* the remarks stream when it is given a path
DrvCompile ==
    /\ drv.pc = "compile"
    /\ UNCHANGED <<bkVars, cmp, stg>>
    /\ \E build \in Toolchain(drv.args.toolchain), ok \in BOOLEAN :
        LET flags == _mode_compile_flags(CurrentMode, drv.remarks_jsonl)
            emits == drv.remarks_jsonl # <<>> /\ build.remarks # <<>>
        IN  drv' = Step("compile", CurrentMode,
        IF flags.error
                   THEN Abort(drv, "unsupported vector mode")
                   ELSE IF ~ok
                   THEN Abort([drv EXCEPT !.extra_cflags = flags.flags], "compile failed")
                   ELSE IF emits
                   THEN [drv EXCEPT !.pc = "link",
                                    !.extra_cflags = flags.flags,
                                    !.objects = build.functions,
                                    !.files = Put(@, drv.remarks_jsonl[1], build.remarks[1]),
                                    !.wrote = @ \cup {drv.remarks_jsonl[1]}]
                   ELSE [drv EXCEPT !.pc = "link", !.extra_cflags = flags.flags,
                                    !.objects = build.functions])
    /\ UNCHANGED anVars

\* lines 821-827: _link_elf
DrvLink ==
    /\ drv.pc = "link"
    /\ UNCHANGED <<bkVars, cmp, stg>>
    /\ \E ok \in BOOLEAN :
        drv' = Step("link", CurrentMode,
        IF ~ok
               THEN Abort(drv, "link failed")
               ELSE [drv EXCEPT !.pc = "objdump", !.elf = drv.objects])
    /\ UNCHANGED anVars

\* lines 829-840: the image is disassembled into the mode's objdump file
DrvObjdump ==
    /\ drv.pc = "objdump"
    /\ UNCHANGED <<bkVars, cmp, stg>>
    /\ \E ok \in BOOLEAN :
        drv' = Step("disassemble", CurrentMode,
        IF ~ok
               THEN Abort(drv, "llvm-objdump failed")
               ELSE [drv EXCEPT !.pc = "qemu",
                                !.files = Put(@, ObjdumpTxt(CurrentMode), drv.elf),
                                !.wrote = @ \cup {ObjdumpTxt(CurrentMode)}])
    /\ UNCHANGED anVars

\* A plausible slip: the output captured until a timeout is dropped.
CapturedUnlessTimeout(p) ==
    IF p.timed_out THEN [stdout |-> <<>>, stderr |-> ""]
    ELSE [stdout |-> p.stdout, stderr |-> p.stderr]

\* what _run_qemu writes to the two log files: e.stdout and e.stderr at a timeout
\* (lines 543-544), p.stdout and p.stderr otherwise (lines 547-548)
captured(p) == [stdout |-> p.stdout, stderr |-> p.stderr]

\* lines 842-873 with _run_qemu (513-556): the optional execution of the mode
DrvQemu ==
    /\ drv.pc = "qemu"
    /\ UNCHANGED <<bkVars, cmp, stg>>
    /\ \E p \in Executions :
        LET logged == [drv EXCEPT
                          !.steps = Append(@, <<"execute", CurrentMode>>),
                          !.execution = <<p>>,
                          !.files = PutAll(@, [n \in {QemuStdout(CurrentMode),
                                                      QemuStderr(CurrentMode)} |->
                                                  IF n = QemuStdout(CurrentMode)
                                                  THEN captured(p).stdout
                                                  ELSE captured(p).stderr]),
                          !.wrote = @ \cup {QemuStdout(CurrentMode), QemuStderr(CurrentMode)}]
            checksum_by_kernel == _parse_kernel_checksums(p.stdout, drv.kernels)
            missing == SelectSeq(drv.kernels, LAMBDA k : k \notin DOMAIN checksum_by_kernel)
        IN  drv' = IF drv.args.no_run_qemu
                   THEN [drv EXCEPT !.pc = "analyze"]
                   ELSE IF p.timed_out
                   THEN Abort(logged, "QEMU timeout")
                   ELSE IF p.returncode # 0
                   THEN Abort(logged, "QEMU failed")
                   ELSE IF ~has_token(p.stdout, "Loop") \/ ~has_token(p.stdout, "Checksum")
                   THEN Abort(logged, "TSVC output missing header")
                   ELSE IF missing # <<>>
                   THEN Abort(logged, "TSVC missing kernels on QEMU")
                   ELSE [logged EXCEPT !.pc = "analyze",
                                       !.observed_kernels =
                                           <<Cardinality(DOMAIN checksum_by_kernel)>>,
                                       !.checksums = <<checksum_by_kernel>>]
    /\ UNCHANGED anVars

\* A plausible slip: the minimum is handed to the analyzer for every mode.
AnalyzerArgsGateEveryMode(d, mode) ==
    [ objdump_exists |-> ObjdumpTxt(mode) \in DOMAIN d.files,
      kernel_list_exists |-> KernelListTxt \in DOMAIN d.files,
      kernel_lines |-> d.files[KernelListTxt],
      functions |-> d.files[ObjdumpTxt(mode)],
      remarks |-> [ given |-> d.remarks_jsonl # <<>>,
                    exists |-> d.remarks_jsonl # <<>> /\ RawRemarks(mode) \in DOMAIN d.files,
                    lines |-> IF d.remarks_jsonl # <<>> /\ RawRemarks(mode) \in DOMAIN d.files
                              THEN d.files[RawRemarks(mode)] ELSE <<>> ],
      mode |-> mode,
      fail_under |-> d.args.strict_fail_under ]

\* the command line _run_analyzer builds (lines 574-597) for the mode
analyzer_args(d, mode) ==
    [ objdump_exists |-> ObjdumpTxt(mode) \in DOMAIN d.files,
      kernel_list_exists |-> KernelListTxt \in DOMAIN d.files,
      kernel_lines |-> d.files[KernelListTxt],
      functions |-> d.files[ObjdumpTxt(mode)],
      remarks |-> [ given |-> d.remarks_jsonl # <<>>,
                    exists |-> d.remarks_jsonl # <<>> /\ RawRemarks(mode) \in DOMAIN d.files,
                    lines |-> IF d.remarks_jsonl # <<>> /\ RawRemarks(mode) \in DOMAIN d.files
                              THEN d.files[RawRemarks(mode)] ELSE <<>> ],
      mode |-> mode,
      fail_under |-> IF mode # "off" THEN d.args.strict_fail_under ELSE <<>> ]

\* lines 875-893 and 598: the analyzer is started as a child process
DrvStartAnalyzer ==
    /\ drv.pc = "analyze"
    /\ UNCHANGED <<bkVars, cmp, stg>>
    /\ drv' = Step("classify", CurrentMode, [drv EXCEPT !.pc = "analyzing"])
    /\ args' = analyzer_args(drv, CurrentMode)
    /\ pc' = "start"
    /\ kernels' = <<>>
    /\ asm_by_kernel' = <<>>
    /\ missing_functions' = <<>>
    /\ by_function' = <<>>
    /\ kernel_rows' = <<>>
    /\ vectorized' = <<>>
    /\ non_vectorized' = <<>>
    /\ chosen_rows' = <<>>
    /\ kernel_out' = <<>>
    /\ json_out' = <<>>
    /\ remarks_summary_out' = <<>>
    /\ gap_plan_out' = <<>>
    /\ report' = <<>>
    /\ written' = <<>>
    /\ exit_code' = <<>>

\* the files the child has written, under the paths of lines 875-878
analyzer_outputs(mode) ==
    LET out == [n \in {CoverageJson(mode), RemarksSummaryJson(mode), GapPlanJson(mode),
                       CoverageMd(mode)} |->
                   IF n = CoverageJson(mode) THEN json_out
                   ELSE IF n = RemarksSummaryJson(mode) THEN remarks_summary_out
                   ELSE IF n = GapPlanJson(mode) THEN gap_plan_out
                   ELSE report]
    IN  [n \in {m \in DOMAIN out : out[m] # <<>>} |-> out[n][1]]

\* lines 598-604 and 895-910: the child has exited; a non-zero status aborts the
\* run, otherwise the mode's artifacts are recorded and the loop goes on
DrvReapAnalyzer ==
    /\ drv.pc = "analyzing"
    /\ UNCHANGED <<bkVars, cmp, stg>>
    /\ pc \in {"done", "fatal"}
    /\ LET mode == CurrentMode
           outputs == analyzer_outputs(mode)
           reaped == [drv EXCEPT !.files = PutAll(@, outputs),
                                 !.wrote = @ \cup DOMAIN outputs,
                                 !.analyzer_returncode = exit_code]
           artifacts == [ mode |-> mode,
                          objdump |-> ObjdumpTxt(mode),
                          qemu_stdout |-> IF drv.args.no_run_qemu THEN <<>>
                                          ELSE <<QemuStdout(mode)>>,
                          qemu_stderr |-> IF drv.args.no_run_qemu THEN <<>>
                                          ELSE <<QemuStderr(mode)>>,
                          observed_kernels |-> drv.observed_kernels,
                          remarks_jsonl |-> drv.remarks_jsonl,
                          coverage_md |-> CoverageMd(mode),
                          coverage_json |-> CoverageJson(mode),
                          remarks_summary_json |-> RemarksSummaryJson(mode),
                          gap_plan_json |-> GapPlanJson(mode),
                          vectorized_kernels |-> get(outputs[CoverageJson(mode)],
                                                     "vectorized", 0),
                          total_kernels |-> Len(drv.kernels),
                          checksums |-> drv.checksums ]
       IN  drv' = IF exit_code # <<0>>
                  THEN Abort(reaped, "TSVC strict coverage analysis failed")
                  ELSE [reaped EXCEPT
                           !.results = Put(@, mode, artifacts),
                           !.pc = IF drv.mode_idx < Len(drv.modes)
                                  THEN "mode_begin" ELSE "select",
                           !.mode_idx = IF drv.mode_idx < Len(drv.modes)
                                        THEN @ + 1 ELSE @]
    /\ UNCHANGED anVars

\* lines 912-935: the selected mode's reports are copied to the mode-independent names
DrvSelectCopy ==
    /\ drv.pc = "select"
    /\ UNCHANGED <<bkVars, cmp, stg>>
    /\ LET selected_mode == selected_mode_of(drv.results, drv.modes)
           selected == drv.results[selected_mode]
           copies == [n \in {LatestCoverageMd, LatestCoverageJson, LatestRemarksSummary,
                             LatestGapPlan} |->
                         IF n = LatestCoverageMd THEN drv.files[selected.coverage_md]
                         ELSE IF n = LatestCoverageJson THEN drv.files[selected.coverage_json]
                         ELSE IF n = LatestRemarksSummary
                         THEN drv.files[selected.remarks_summary_json]
                         ELSE drv.files[selected.gap_plan_json]]
           copied == [drv EXCEPT !.pc = "compare",
                                 !.selected_mode = selected_mode,
                                 !.files = PutAll(@, copies),
                                 !.wrote = @ \cup DOMAIN copies]
       IN  drv' = IF selected.remarks_jsonl # <<>>
                        /\ selected.remarks_jsonl[1] \in DOMAIN drv.files
                  THEN [copied EXCEPT
                           !.files = Put(@, LatestRawRemarks,
                                         drv.files[selected.remarks_jsonl[1]]),
                           !.wrote = @ \cup {LatestRawRemarks}]
                  ELSE copied
    /\ UNCHANGED anVars

\* lines 937-959 with _run_checksum_compare (607-639): the optional comparison of
\* the selected mode's output with the baseline log
DrvChecksumCompare ==
    /\ drv.pc = "compare"
    /\ UNCHANGED <<bkVars, cmp, stg>>
    /\ LET selected == drv.results[drv.selected_mode]
           p == compare_main(drv.args.compare_baseline_log[1],
                             IF selected.qemu_stdout[1] \in DOMAIN drv.files
                             THEN <<drv.files[selected.qemu_stdout[1]]>> ELSE <<>>,
                             drv.files[KernelListTxt],
                             drv.args.fail_on_checksum_mismatch)
           outputs == [n \in {m \in {ChecksumJson(drv.selected_mode),
                                     ChecksumMd(drv.selected_mode)} : p.payload # <<>>} |->
                          p.payload[1]]
           compared == [drv EXCEPT !.files = PutAll(@, outputs),
                                   !.wrote = @ \cup DOMAIN outputs,
                                   !.compare_returncode = <<p.returncode>>]
       IN  drv' = IF drv.args.compare_baseline_log = <<>>
                  THEN [drv EXCEPT !.pc = "gate_json"]
                  ELSE IF drv.args.no_run_qemu \/ selected.qemu_stdout = <<>>
                  THEN Abort(drv, "checksum comparison requires selected QEMU stdout")
                  ELSE IF p.returncode # 0
                  THEN Abort(compared, "TSVC checksum comparison failed")
                  ELSE [compared EXCEPT !.pc = "gate_json",
                                        !.checksum_payload = p.payload]
    /\ UNCHANGED anVars

\* gate_payload (lines 961-1005)
gate_payload(d) ==
    [ mode_selected |-> d.selected_mode,
      vector_modes_run |-> d.modes,
      kernel_count |-> Len(d.kernels),
      selected_artifacts |->
          [ objdump |-> d.results[d.selected_mode].objdump,
            qemu_stdout |-> d.results[d.selected_mode].qemu_stdout,
            qemu_stderr |-> d.results[d.selected_mode].qemu_stderr,
            coverage_json |-> d.results[d.selected_mode].coverage_json,
            remarks_json |-> d.results[d.selected_mode].remarks_summary_json,
            gap_plan_json |-> d.results[d.selected_mode].gap_plan_json ],
      coverage |-> d.files[d.results[d.selected_mode].coverage_json],
      checksum_compare |-> d.checksum_payload ]

\* lines 1006-1009: the gate result is written under the mode's name and copied
DrvGateJson ==
    /\ drv.pc = "gate_json"
    /\ UNCHANGED <<bkVars, cmp, stg>>
    /\ drv' = [drv EXCEPT
                  !.pc = "summary",
                  !.files = PutAll(@, [n \in {GateJson(drv.selected_mode), LatestGateJson} |->
                                          gate_payload(drv)]),
                  !.wrote = @ \cup {GateJson(drv.selected_mode), LatestGateJson}]
    /\ UNCHANGED anVars

\* the run summary (lines 1011-1059): the figures it prints
summary_lines(d) ==
    [ modes_run |-> d.modes,
      qemu_executed |-> ~d.args.no_run_qemu,
      mode_artifacts |->
          Map(d.modes, LAMBDA mode :
              [ mode |-> mode,
                vectorized_kernels |-> d.results[mode].vectorized_kernels,
                total_kernels |-> d.results[mode].total_kernels,
                observed_kernels |-> d.results[mode].observed_kernels ]),
      checksum_mismatches |->
          IF d.checksum_payload # <<>>
          THEN <<d.checksum_payload[1].checksum_mismatch_count>> ELSE <<>> ]

\* lines 1060-1066: tsvc_report.md is written and main returns 0
DrvSummary ==
    /\ drv.pc = "summary"
    /\ UNCHANGED <<bkVars, cmp, stg>>
    /\ drv' = [drv EXCEPT !.pc = "exited",
                          !.exit = <<0>>,
                          !.files = Put(@, SummaryMd, summary_lines(drv)),
                          !.wrote = @ \cup {SummaryMd}]
    /\ UNCHANGED anVars

DriverNext ==
    \/ DrvPreflight
    \/ DrvStage
    \/ DrvBuildRuntime
    \/ DrvModeBegin
    \/ DrvCompile
    \/ DrvLink
    \/ DrvObjdump
    \/ DrvQemu
    \/ DrvStartAnalyzer
    \/ DrvReapAnalyzer
    \/ DrvSelectCopy
    \/ DrvChecksumCompare
    \/ DrvGateJson
    \/ DrvSummary

(***************************************************************************)
(* Inputs of the driver runs explored                                      *)
(***************************************************************************)
\* files a previous run left in the output tree
StaleFiles ==
    [n \in {RawRemarks("auto"), LatestRawRemarks, LatestGateJson} |-> <<"stale">>]
NoFiles == [n \in {} |-> <<>>]

DriverArgs(vector_mode, no_run_qemu, strict_fail_under, compare_baseline_log,
           fail_on_checksum_mismatch, staged, tools_ok, toolchain) ==
    [ vector_mode |-> vector_mode, no_run_qemu |-> no_run_qemu,
      strict_fail_under |-> strict_fail_under,
      compare_baseline_log |-> compare_baseline_log,
      fail_on_checksum_mismatch |-> fail_on_checksum_mismatch,
      staged |-> staged, tools_ok |-> tools_ok, toolchain |-> toolchain ]

\* builds without execution, with and without a coverage minimum
RunsCoverage ==
    { DriverArgs(vm, TRUE, fu, <<>>, FALSE, <<"s1", "s2">>, TRUE,
                 "any") :
        vm \in Range(_VECTOR_MODES) \cup {"all"}, fu \in {<<>>, <<1>>, <<2>>, <<3>>} }

\* builds with execution, with and without a baseline log to compare with
RunsChecksum ==
    { DriverArgs(vm, FALSE, fu, bl, fm, <<"s1", "s2">>, TRUE, "remarking") :
        vm \in {"off", "auto", "all"}, fu \in {<<>>, <<1>>},
        bl \in {<<>>, << <<LogOf("1.5")>> >>, << <<>> >>}, fm \in BOOLEAN }

\* runs that stop before the first mode
RunsPreflight ==
    { DriverArgs("auto", nq, <<>>, bl, FALSE, st, ok, "vectorizing") :
        nq \in BOOLEAN, bl \in {<<>>, << <<LogOf("1.5")>> >>},
        st \in {<<>>, <<"s1", "s2">>}, ok \in BOOLEAN }

DriverRuns == RunsCoverage \cup RunsChecksum \cup RunsPreflight

DriverInit ==
    \E a \in DriverRuns, old \in {NoFiles, StaleFiles} :
        drv = [ pc |-> "start", args |-> a, kernels |-> <<>>, modes |-> <<>>, mode_idx |-> 0,
                remarks_jsonl |-> <<>>, objects |-> NoFunctions, elf |-> NoFunctions,
                observed_kernels |-> <<>>, checksums |-> <<>>,
                results |-> [m \in {} |-> <<>>], selected_mode |-> "",
                checksum_payload |-> <<>>, analyzer_returncode |-> <<>>,
                compare_returncode |-> <<>>, files |-> old, wrote |-> {},
                steps |-> <<>>, execution |-> <<>>, extra_cflags |-> <<>>,
                error |-> "", exit |-> <<>> ]

SpecDriverInit == DriverInit /\ AnalyzerIdle /\ BucketIdle /\ CompareIdle /\ StageIdle
SpecDriverNext == DriverNext \/ AnalyzerNext
SpecDriver == SpecDriverInit /\ [][SpecDriverNext]_vars

(***************************************************************************)
(* The comparator process: compare_tsvc_checksums.main, one step per       *)
(* block of its body.  A file argument is <<>> when the file does not      *)
(* exist and <<lines>> when it does; --kernel-list is <<>> when not given  *)
(* and <<file>> when given.                                                *)
(***************************************************************************)
EmptyRows == [k \in {} |-> [time |-> "", checksum |-> ""]]

\* lines 63-68: the three existence checks, each a SystemExit with a message
CmpCheckInputs ==
    /\ cmp.pc = "start"
    /\ UNCHANGED <<bkVars, anVars, drv, stg>>
    /\ cmp' = IF cmp.args.baseline = <<>>
              THEN [cmp EXCEPT !.pc = "exited", !.exit = <<1>>,
                               !.error = "error: baseline log not found"]
              ELSE IF cmp.args.candidate = <<>>
              THEN [cmp EXCEPT !.pc = "exited", !.exit = <<1>>,
                               !.error = "error: candidate log not found"]
              ELSE IF cmp.args.kernel_list # <<>> /\ cmp.args.kernel_list[1] = <<>>
              THEN [cmp EXCEPT !.pc = "exited", !.exit = <<1>>,
                               !.error = "error: kernel list not found"]
              ELSE [cmp EXCEPT !.pc = "parse"]

\* lines 70-77: both logs parsed, the kernel list read, the kernels chosen
CmpParseLogs ==
    /\ cmp.pc = "parse"
    /\ UNCHANGED <<bkVars, anVars, drv, stg>>
    /\ LET baseline_rows == _parse_log(match_lines(cmp.args.baseline[1]))
           candidate_rows == _parse_log(match_lines(cmp.args.candidate[1]))
           kernel_filter ==
               IF cmp.args.kernel_list = <<>> THEN <<>>
               ELSE <<_read_kernel_list(cmp.args.kernel_list[1][1])>>
       IN  cmp' = [cmp EXCEPT !.pc = "compare",
                              !.baseline_rows = baseline_rows,
                              !.candidate_rows = candidate_rows,
                              !.kernels = compared_kernels(baseline_rows, candidate_rows,
                                                           kernel_filter)]

\* lines 79-111: the missing lists, the mismatches, the payload
CmpCompare ==
    /\ cmp.pc = "compare"
    /\ UNCHANGED <<bkVars, anVars, drv, stg>>
    /\ cmp' = [cmp EXCEPT !.pc = "write_json",
                          !.payload = <<compare_payload(cmp.baseline_rows,
                                                        cmp.candidate_rows, cmp.kernels)>>]

\* lines 113-115: the JSON payload, if --json-out was given
CmpWriteJson ==
    /\ cmp.pc = "write_json"
    /\ UNCHANGED <<bkVars, anVars, drv, stg>>
    /\ cmp' = IF cmp.args.json_out
              THEN [cmp EXCEPT !.pc = "write_report",
                               !.json_out = cmp.payload,
                               !.written = Append(cmp.written, "json_out")]
              ELSE [cmp EXCEPT !.pc = "write_report"]

\* lines 117-144: the markdown report, if --report-out was given
CmpWriteReport ==
    /\ cmp.pc = "write_report"
    /\ UNCHANGED <<bkVars, anVars, drv, stg>>
    /\ cmp' = IF cmp.args.report_out
              THEN [cmp EXCEPT !.pc = "gate",
                               !.report_out = <<compare_report_lines(cmp.payload[1])>>,
                               !.written = Append(cmp.written, "report_out")]
              ELSE [cmp EXCEPT !.pc = "gate"]

\* lines 146-158: the exit code
CmpExit ==
    /\ cmp.pc = "gate"
    /\ UNCHANGED <<bkVars, anVars, drv, stg>>
    /\ cmp' = [cmp EXCEPT !.pc = "exited",
                          !.exit = <<compare_exit_code(cmp.args.fail_on_mismatch,
                                                       cmp.payload[1])>>]

CompareNext ==
    \/ CmpCheckInputs
    \/ CmpParseLogs
    \/ CmpCompare
    \/ CmpWriteJson
    \/ CmpWriteReport
    \/ CmpExit

(***************************************************************************)
(* Comparator inputs                                                       *)
(***************************************************************************)
\* the longest log, in lines
MaxLog == 2

\* lines that exercise the row pattern: the header, rows, a repeated kernel
\* with another checksum, ragged whitespace, wrong token counts, first
\* tokens that are no identifiers, the empty line
PatternLines ==
    { "Loop Time(sec) Checksum",
      "s000 0.1 0x1",
      "s000 0.2 0x2",
      " s1\t0.3  0x1 ",
      "s1 0.3",
      "s1 0.3 0x1 x",
      "1s 0.3 0x1",
      "s-1 0.3 0x1",
      "" }

\* rows of two kernels, one of them with two checksums
RowLines == {"s000 0.1 0x1", "s000 0.2 0x2", "s1 0.3 0x1"}

\* kernel-list files: a plain one, and one with a comment, padding, a kernel
\* of neither log and a repeated kernel
KernelLists == { <<"s000", "s1">>, <<"# tsvc", "s1", " s2 ", "s1">> }

CompareArgs(baseline, candidate, kernel_list, with_json, with_report, fail_on_mismatch) ==
    [ baseline |-> baseline, candidate |-> candidate, kernel_list |-> kernel_list,
      json_out |-> with_json, report_out |-> with_report,
      fail_on_mismatch |-> fail_on_mismatch ]

\* what the harness prints: the header, a row per kernel, a kernel printed
\* twice, a truncated row
HarnessLog ==
    <<"Loop Time(sec) Checksum", "s000 0.1 0x1", "s000 0.2 0x2", "s1 0.3", "_k 1 2">>

\* any log against a fixed candidate, all kernels of either log compared
RunsPattern ==
    { CompareArgs(<<b>>, <<c>>, <<>>, TRUE, TRUE, FALSE) :
        b \in SeqsOf(PatternLines, 0, MaxLog), c \in {HarnessLog} }

\* any two logs of rows, with and without a kernel list and the gate
RunsRows ==
    { CompareArgs(<<b>>, <<c>>, kl, TRUE, TRUE, f) :
        b \in SeqsOf(RowLines, 0, MaxLog), c \in SeqsOf(RowLines, 0, MaxLog),
        kl \in {<<>>} \cup { << <<l>> >> : l \in KernelLists }, f \in BOOLEAN }

\* files that do not exist, outputs that were not asked for
RunsOutputs ==
    { CompareArgs(b, c, kl, j, r, f) :
        b \in {<<>>, << <<"s000 0.1 0x1">> >>},
        c \in {<<>>, << <<"s000 0.1 0x1">> >>, << <<"s000 0.1 0x2">> >>},
        kl \in {<<>>, << <<>> >>, << << <<"s000">> >> >>},
        j \in BOOLEAN, r \in BOOLEAN, f \in BOOLEAN }

CompareRuns == RunsPattern \cup RunsRows \cup RunsOutputs

CompareInit ==
    \E a \in CompareRuns :
        cmp = [ pc |-> "start", args |-> a,
                baseline_rows |-> EmptyRows, candidate_rows |-> EmptyRows,
                kernels |-> <<>>, payload |-> <<>>,
                json_out |-> <<>>, report_out |-> <<>>, written |-> <<>>,
                exit |-> <<>>, error |-> "" ]

SpecCompareInit == CompareInit /\ AnalyzerIdle /\ BucketIdle /\ DriverIdle /\ StageIdle
SpecCompareNext == CompareNext
SpecCompare == SpecCompareInit /\ [][SpecCompareNext]_vars

(***************************************************************************)
(* Staging: run_tsvc._stage_tsvc_sources and the kernel list main() writes *)
(* from its result.  common.h is its sequence of lines, a line being       *)
(* [kind, macro, value]: kind "define" with value <<n>> is a line the      *)
(* pattern of _rewrite_macro matches for that macro (#define, the macro,   *)
(* a decimal number), value <<>> a definition it does not match.  tsvc.c   *)
(* is its sequence of lines [kind, kernel, leading, done]: the s176 outer  *)
(* bound, a time_function body, the function s2111, a harness call site    *)
(* time_function(&kernel, ...) that starts its line (leading) or not, a    *)
(* call site commented out (kind "skipped").                               *)
(***************************************************************************)
_SOURCE_POLICIES == <<"linx-v03-parity", "upstream">>

HeaderDefine(macro, value) == [kind |-> "define", macro |-> macro, value |-> value]
SourceLine(kind, kernel, leading, done) ==
    [kind |-> kind, kernel |-> kernel, leading |-> leading, done |-> done]

\* A plausible slip: re.sub with count=1, only the first definition is rewritten.
RewriteFirstOnly(text, macro, value) ==
    LET hits == {i \in 1..Len(text) :
                    text[i].kind = "define" /\ text[i].macro = macro /\ text[i].value # <<>>}
    IN  [ error |-> hits = {},
          text |-> [i \in 1..Len(text) |->
                       IF i \in hits /\ \A j \in hits : i <= j
                       THEN HeaderDefine(macro, <<value>>) ELSE text[i]] ]

\* _rewrite_macro: every matching definition gets the value; none matching is an error
_rewrite_macro(text, macro, value) ==
    LET hits == {i \in 1..Len(text) :
                    text[i].kind = "define" /\ text[i].macro = macro /\ text[i].value # <<>>}
    IN  [ error |-> hits = {},
          text |-> [i \in 1..Len(text) |->
                       IF i \in hits THEN HeaderDefine(macro, <<value>>) ELSE text[i]] ]

\* re.findall of the call-site pattern over the text
call_sites(tsvc_text) ==
    Map(SelectSeq(tsvc_text, LAMBDA l : l.kind = "call"), LAMBDA l : l.kernel)

\* the for loop of _extract_kernel_names: names not seen before are appended
RECURSIVE ordered_names(_, _)
ordered_names(names, ordered) ==
    IF names = <<>> THEN ordered
    ELSE ordered_names(Tail(names),
                       IF Head(names) \in Range(ordered) THEN ordered
                       ELSE Append(ordered, Head(names)))

\* A plausible slip: the names are returned as found, repetitions included.
ExtractWithRepeats(tsvc_text) ==
    [error |-> call_sites(tsvc_text) = <<>>, names |-> call_sites(tsvc_text)]

\* _extract_kernel_names
_extract_kernel_names(tsvc_text) ==
    [ error |-> call_sites(tsvc_text) = <<>>,
      names |-> ordered_names(call_sites(tsvc_text), <<>>) ]

\* pattern.search(k) for a pattern that is a literal text
pattern_search(pattern, k) == contains(k, pattern)

StageAbort(message) == [stg EXCEPT !.pc = "exited", !.exit = <<1>>, !.error = message]

\* lines 263-265: the stage directory is replaced by a copy of the source tree
StgCopyTree ==
    /\ stg.pc = "start"
    /\ UNCHANGED <<bkVars, anVars, drv, cmp>>
    /\ stg' = [stg EXCEPT !.pc = "header",
                          !.stage = [common_h |-> stg.src.common_h,
                                     tsvc_c |-> stg.src.tsvc_c]]

\* lines 267-289: the three macros of common.h are rewritten and the header is written
StgPatchHeader ==
    /\ stg.pc = "header"
    /\ UNCHANGED <<bkVars, anVars, drv, cmp>>
    /\ LET a == _rewrite_macro(stg.stage.common_h, "iterations", stg.args.iterations)
           b == _rewrite_macro(a.text, "LEN_1D", stg.args.len_1d)
           c == _rewrite_macro(b.text, "LEN_2D", stg.args.len_2d)
       IN  stg' = IF a.error THEN StageAbort("failed to patch iterations in TSVC common.h")
                  ELSE IF b.error THEN StageAbort("failed to patch LEN_1D in TSVC common.h")
                  ELSE IF c.error THEN StageAbort("failed to patch LEN_2D in TSVC common.h")
                  ELSE [stg EXCEPT !.pc = "source", !.stage.common_h = c.text]

\* lines 291-346: the s176 bound and the time_function body are patched, each found
\* exactly once, and the source policy is applied; nothing is written yet
StgPatchSource ==
    /\ stg.pc = "source"
    /\ UNCHANGED <<bkVars, anVars, drv, cmp>>
    /\ LET text == stg.stage.tsvc_c
           count(kind) == Len(SelectSeq(text, LAMBDA l : l.kind = kind))
           patched == [i \in 1..Len(text) |->
                          IF text[i].kind \in {"s176_bound", "time_function"}
                          THEN [text[i] EXCEPT !.done = TRUE] ELSE text[i]]
           canonical == [i \in 1..Len(text) |->
                            IF patched[i].kind = "s2111"
                            THEN [patched[i] EXCEPT !.done = TRUE] ELSE patched[i]]
       IN  stg' = IF count("s176_bound") # 1
                  THEN StageAbort("expected to patch exactly 1 s176 outer bound")
                  ELSE IF count("time_function") # 1
                  THEN StageAbort("expected to patch exactly 1 time_function")
                  ELSE IF stg.args.source_policy = "linx-v03-parity"
                  THEN IF count("s2111") = 0
                       THEN StageAbort("failed to locate s2111 in staged TSVC source")
                       ELSE [stg EXCEPT !.pc = "kernels", !.tsvc_text = canonical]
                  ELSE IF stg.args.source_policy # "upstream"
                  THEN StageAbort("unsupported --source-policy")
                  ELSE [stg EXCEPT !.pc = "kernels", !.tsvc_text = patched]

\* lines 348-369: the kernel names are extracted and filtered, the call sites of the
\* other kernels are commented out, and tsvc.c is written
StgSelectKernels ==
    /\ stg.pc = "kernels"
    /\ UNCHANGED <<bkVars, anVars, drv, cmp>>
    /\ LET found == _extract_kernel_names(stg.tsvc_text)
           filtered == stg.args.kernel_regex # <<>> /\ stg.args.kernel_regex[1].text # ""
           keep == {k \in Range(found.names) :
                       pattern_search(stg.args.kernel_regex[1].text, k)}
           new_lines == [i \in 1..Len(stg.tsvc_text) |->
                            LET l == stg.tsvc_text[i] IN
                            IF l.kind = "call" /\ l.leading /\ l.kernel \notin keep
                            THEN [l EXCEPT !.kind = "skipped"] ELSE l]
       IN  stg' = IF found.error
                  THEN StageAbort("failed to extract TSVC kernel list")
                  ELSE IF ~filtered
                  THEN [stg EXCEPT !.pc = "kernel_list", !.kernels = found.names,
                                   !.stage.tsvc_c = stg.tsvc_text,
                                   !.wrote_tsvc_c = TRUE]
                  ELSE IF ~stg.args.kernel_regex[1].valid
                  THEN StageAbort("invalid --kernel-regex")
                  ELSE IF keep = {}
                  THEN StageAbort("--kernel-regex matched 0 kernels")
                  ELSE [stg EXCEPT !.pc = "kernel_list",
                                   !.kernels = SelectSeq(found.names, LAMBDA k : k \in keep),
                                   !.tsvc_text = new_lines,
                                   !.stage.tsvc_c = new_lines,
                                   !.wrote_tsvc_c = TRUE]

\* run_tsvc.main lines 755-764: kernel_list.txt is written from the staged kernels
StgWriteKernelList ==
    /\ stg.pc = "kernel_list"
    /\ UNCHANGED <<bkVars, anVars, drv, cmp>>
    /\ stg' = [stg EXCEPT !.pc = "staged", !.kernel_list = <<stg.kernels>>]

StageNext ==
    \/ StgCopyTree
    \/ StgPatchHeader
    \/ StgPatchSource
    \/ StgSelectKernels
    \/ StgWriteKernelList

(***************************************************************************)
(* Staging inputs                                                          *)
(***************************************************************************)
\* the most call sites of a source
MaxCalls == 3

\* the most definitions of one macro in a header
MaxDefines == 2

\* n matching definitions of a macro with distinct upstream values, then a definition
\* of the same macro that the pattern does not match
Defines(macro, n) ==
    [i \in 1..n |-> HeaderDefine(macro, <<100 + i>>)] \o <<HeaderDefine(macro, <<>>)>>

Headers ==
    { Defines("iterations", a) \o Defines("LEN_1D", b) \o Defines("LEN_2D", c) :
        a \in 0..MaxDefines, b \in 0..MaxDefines, c \in 0..MaxDefines }

GoodHeader == Defines("iterations", 1) \o Defines("LEN_1D", 1) \o Defines("LEN_2D", 1)

\* call sites of three kernels, one of them inside a line
CallLines ==
    { SourceLine("call", "s1", TRUE, FALSE), SourceLine("call", "s2", TRUE, FALSE),
      SourceLine("call", "s12", FALSE, FALSE) }

\* a tsvc.c with so many s176 bounds and time_function bodies, with or without s2111
Source(bounds, bodies, s2111, calls) ==
    [i \in 1..bounds |-> SourceLine("s176_bound", "", TRUE, FALSE)]
        \o [i \in 1..bodies |-> SourceLine("time_function", "", TRUE, FALSE)]
        \o (IF s2111 THEN <<SourceLine("s2111", "", TRUE, FALSE)>> ELSE <<>>)
        \o calls

KernelRegexes ==
    { <<>>, <<[valid |-> TRUE, text |-> ""]>>, <<[valid |-> TRUE, text |-> "s1"]>>,
      <<[valid |-> TRUE, text |-> "2"]>>, <<[valid |-> TRUE, text |-> "zz"]>>,
      <<[valid |-> FALSE, text |-> "("]>> }

StageRun(header, tsvc_c, kernel_regex, source_policy) ==
    [ args |-> [iterations |-> 32, len_1d |-> 320, len_2d |-> 16,
                kernel_regex |-> kernel_regex, source_policy |-> source_policy],
      src |-> [common_h |-> header, tsvc_c |-> tsvc_c] ]

\* any call sites under any filter, the rest of the source as upstream has it
RunsKernels ==
    { StageRun(GoodHeader, Source(1, 1, TRUE, calls), re, "upstream") :
        calls \in SeqsOf(CallLines, 0, MaxCalls), re \in KernelRegexes }

\* any header, any number of time_function bodies, any policy tag
RunsDrift ==
    { StageRun(h, Source(1, bodies, TRUE, <<SourceLine("call", "s1", TRUE, FALSE)>>),
               <<>>, policy) :
        h \in Headers, bodies \in 0..2,
        policy \in Range(_SOURCE_POLICIES) \cup {"relaxed"} }
    \cup
    { StageRun(GoodHeader,
               Source(bounds, 1, s2111, <<SourceLine("call", "s1", TRUE, FALSE)>>),
               <<>>, policy) :
        bounds \in 0..2, s2111 \in BOOLEAN, policy \in Range(_SOURCE_POLICIES) }

StageRuns == RunsKernels \cup RunsDrift

\* what an earlier run left in the output directory
StageLeftovers ==
    { [stage |-> [common_h |-> <<>>, tsvc_c |-> <<>>], kernel_list |-> <<>>],
      [stage |-> [common_h |-> GoodHeader,
                  tsvc_c |-> <<SourceLine("call", "old", TRUE, FALSE)>>],
       kernel_list |-> <<<<"old">>>>] }

StageInit ==
    \E r \in StageRuns, old \in StageLeftovers :
        stg = [ pc |-> "start", args |-> r.args, src |-> r.src,
                stage |-> old.stage, before |-> old, tsvc_text |-> <<>>,
                wrote_tsvc_c |-> FALSE, kernels |-> <<>>,
                kernel_list |-> old.kernel_list, exit |-> <<>>, error |-> "" ]

SpecStageInit == StageInit /\ AnalyzerIdle /\ BucketIdle /\ DriverIdle /\ CompareIdle
SpecStageNext == StageNext
SpecStage == SpecStageInit /\ [][SpecStageNext]_vars

(***************************************************************************)
(* Vocabulary of the properties                                            *)
(***************************************************************************)
Rows_ == 1..Len(kernel_rows)

\* the remark records of the input file, in file order
FileRows == _parse_remarks_jsonl(args.remarks)

\* the records of kernel k: those naming k, then those naming _k, each in file order
RemarksOf(k) ==
    SelectSeq(FileRows, LAMBDA r : row_function(r) = k)
        \o SelectSeq(FileRows, LAMBDA r : row_function(r) = "_" \o k)

LoweredOf(k) == SelectSeq(RemarksOf(k), LAMBDA r : "status" \in DOMAIN r /\ r.status = "lowered")
RejectOf(k) == SelectSeq(RemarksOf(k), LAMBDA r : "status" \in DOMAIN r /\ r.status = "reject")

HasVblockPrefix(r) == "reason" \in DOMAIN r /\ startswith(r.reason, "lowered_vblock")

\* the functions reachable from root over b.text targets that name a function
RECURSIVE ReachFrom(_, _)
ReachFrom(functions, S) ==
    LET T == S \cup { t \in DOMAIN functions :
                        \E n \in S : \E i \in 1..Len(functions[n]) :
                            IsBText(functions[n][i]) /\ functions[n][i].arg = t }
    IN  IF T = S THEN S ELSE ReachFrom(functions, T)

Closure(k) == ReachFrom(args.functions, {asm_by_kernel[k].resolved_symbol[1]})

Resolved(k) == k \in DOMAIN asm_by_kernel /\ asm_by_kernel[k].resolved_symbol # <<>>

\* C1: a classified kernel is strict_vectorized exactly when its status is lowered,
\* its reason begins with lowered_vblock, the policy-matched header flag is set, the
\* vector-instruction flag is set and the b.text flag is set; so a kernel with any
\* single one of the five false is not strict_vectorized.
C1_StrictIffAllFive ==
    \A i \in Rows_ :
        LET row == kernel_rows[i]
            asm == asm_by_kernel[row.kernel]
        IN  /\ row.asm_has_vec_insn = asm.has_vec_insn
            /\ row.asm_has_btext = asm.has_btext
            /\ row.strict_vectorized <=>
                   ( /\ row.status = "lowered"
                     /\ startswith(row.reason, "lowered_vblock")
                     /\ row.asm_header_matches_policy
                     /\ asm.has_vec_insn
                     /\ asm.has_btext )

\* a run that credits a kernel, all five conditions holding
C1_Witness ==
    \E i \in Rows_ :
        /\ kernel_rows[i].strict_vectorized
        /\ kernel_rows[i].status = "lowered"
        /\ kernel_rows[i].asm_header_matches_policy
        /\ kernel_rows[i].asm_has_vec_insn
        /\ kernel_rows[i].asm_has_btext

\* C2, as the claim states it: every one of the four evidence flags of a resolved kernel is the
\* union of the marker over the functions of the kernel's closure.
C2_AllFlagsOverClosure ==
    \A k \in DOMAIN asm_by_kernel :
        Resolved(k) =>
            /\ asm_by_kernel[k].has_mem_block
                   <=> \E n \in Closure(k) : _RE_BSTART_MEM(args.functions[n])
            /\ asm_by_kernel[k].has_tile_block
                   <=> \E n \in Closure(k) : _RE_BSTART_TILE(args.functions[n])
            /\ asm_by_kernel[k].has_vec_insn
                   <=> \E n \in Closure(k) : _RE_VEC_INSN(args.functions[n])
            /\ asm_by_kernel[k].has_btext
                   <=> \E n \in Closure(k) : _RE_BTEXT_TARGET(args.functions[n])

\* C2: the vector-instruction flag of a resolved kernel is the union over
\* the closure; the memory-header, tile-header and b.text flags are read from the
\* root function alone (for b.text the two coincide: a root without b.text has no
\* closure beyond itself).
C2_VecOverClosureHeadersAtRoot ==
    \A k \in DOMAIN asm_by_kernel :
        Resolved(k) =>
            LET root == args.functions[asm_by_kernel[k].resolved_symbol[1]] IN
            /\ asm_by_kernel[k].has_vec_insn
                   <=> \E n \in Closure(k) : _RE_VEC_INSN(args.functions[n])
            /\ asm_by_kernel[k].has_mem_block <=> _RE_BSTART_MEM(root)
            /\ asm_by_kernel[k].has_tile_block <=> _RE_BSTART_TILE(root)
            /\ asm_by_kernel[k].has_btext <=> _RE_BTEXT_TARGET(root)
            /\ asm_by_kernel[k].has_btext
                   <=> \E n \in Closure(k) : _RE_BTEXT_TARGET(args.functions[n])

\* a kernel whose vector instruction and whose memory header sit only in a helper
\* function of its closure
C2_Witness ==
    \E k \in DOMAIN asm_by_kernel :
        /\ Resolved(k)
        /\ Cardinality(Closure(k)) > 1
        /\ ~_RE_VEC_INSN(args.functions[asm_by_kernel[k].resolved_symbol[1]])
        /\ asm_by_kernel[k].has_vec_insn
        /\ ~asm_by_kernel[k].has_mem_block
        /\ \E n \in Closure(k) : _RE_BSTART_MEM(args.functions[n])

\* C3: a kernel with at least one lowered remark has status lowered however many
\* reject remarks it has, and its reason is the reason of the chosen remark: the
\* first lowered remark whose reason begins with lowered_vblock, or the first
\* lowered remark when none does.
C3_LoweredWinsWithChosenReason ==
    \A i \in Rows_ :
        LET k == kernel_rows[i].kernel
            lowered == LoweredOf(k)
            preferred == SelectSeq(lowered, HasVblockPrefix)
            chosen == IF preferred # <<>> THEN preferred[1] ELSE lowered[1]
        IN  lowered # <<>> =>
                /\ kernel_rows[i].status = "lowered"
                /\ chosen_rows[i] = <<chosen>>
                /\ "reason" \in DOMAIN chosen
                /\ kernel_rows[i].reason = chosen.reason

\* the occurrences of a reason among the reject remarks of kernel k
RejectCount(k, reason) ==
    Cardinality({j \in 1..Len(RejectOf(k)) : get(RejectOf(k)[j], "reason", "") = reason})

\* the position of the first reject remark of kernel k giving the reason
FirstReject(k, reason) ==
    CHOOSE j \in 1..Len(RejectOf(k)) :
        /\ get(RejectOf(k)[j], "reason", "") = reason
        /\ \A h \in 1..(j - 1) : get(RejectOf(k)[h], "reason", "") # reason

RejectReasons(k) == {get(RejectOf(k)[j], "reason", "") : j \in 1..Len(RejectOf(k))}

\* C4: a kernel with no lowered remark and at least one reject remark has status
\* reject and the reject reason of highest count; among reasons of equal highest
\* count, the one met first in the kernel's remark list.
C4_MostFrequentRejectFirstSeen ==
    \A i \in Rows_ :
        LET k == kernel_rows[i].kernel
            reason == kernel_rows[i].reason
        IN  (LoweredOf(k) = <<>> /\ RejectOf(k) # <<>>) =>
                /\ kernel_rows[i].status = "reject"
                /\ reason \in RejectReasons(k)
                /\ \A other \in RejectReasons(k) \ {reason} :
                       \/ RejectCount(k, other) < RejectCount(k, reason)
                       \/ /\ RejectCount(k, other) = RejectCount(k, reason)
                          /\ FirstReject(k, reason) < FirstReject(k, other)

\* a kernel whose two most frequent reject reasons tie, the later-seen one being
\* passed over, and a third remark present
C4_Witness ==
    \E i \in Rows_ :
        LET k == kernel_rows[i].kernel IN
        /\ LoweredOf(k) = <<>>
        /\ Len(RejectOf(k)) >= 3
        /\ \E other \in RejectReasons(k) \ {kernel_rows[i].reason} :
               /\ RejectCount(k, other) = RejectCount(k, kernel_rows[i].reason)
               /\ FirstReject(k, kernel_rows[i].reason) < FirstReject(k, other)

\* C5: a kernel that no remark record names (no remarks file, an empty one, or only
\* records of other functions) is reject / no_remarks_for_kernel / other and not
\* strict_vectorized, whatever its disassembly shows.
C5_NoRemarksSentinel ==
    \A i \in Rows_ :
        RemarksOf(kernel_rows[i].kernel) = <<>> =>
            /\ kernel_rows[i].status = "reject"
            /\ kernel_rows[i].reason = "no_remarks_for_kernel"
            /\ kernel_rows[i].bucket = "other"
            /\ ~kernel_rows[i].strict_vectorized
            /\ kernel_rows[i].kernel \notin Range(vectorized)

\* a kernel without remarks whose disassembly shows every marker, in a run whose
\* remarks file has records of another function
C5_Witness ==
    \E i \in Rows_ :
        /\ RemarksOf(kernel_rows[i].kernel) = <<>>
        /\ FileRows # <<>>
        /\ kernel_rows[i].asm_has_mem_header
        /\ kernel_rows[i].asm_has_tile_header
        /\ kernel_rows[i].asm_has_vec_insn
        /\ kernel_rows[i].asm_has_btext

\* the truth value the chosen remark gives touches_memory
TouchesMemory(chosen) ==
    IF chosen = <<>> \/ "touches_memory" \notin DOMAIN chosen[1] THEN "unknown"
    ELSE LET tm == chosen[1].touches_memory IN
         IF tm.t = "bool" THEN (IF tm.v = "true" THEN "true" ELSE "false")
         ELSE IF tm.t = "str" /\ lower(strip(tm.v)) \in {"1", "true", "yes", "on"} THEN "true"
         ELSE IF tm.t = "str" /\ lower(strip(tm.v)) \in {"0", "false", "no", "off"} THEN "false"
         ELSE "unknown"

\* C6: the policy-matched header flag is the memory-header flag when the chosen
\* remark's touches_memory is true, the tile-header flag when it is false, and
\* either header when it is unknown or absent; a kernel with touches_memory true
\* and no memory header is never strict_vectorized.
C6_HeaderPolicyFollowsTouchesMemory ==
    \A i \in Rows_ :
        LET row == kernel_rows[i]
            asm == asm_by_kernel[row.kernel]
            tm == TouchesMemory(chosen_rows[i])
        IN  /\ tm = "true" => (row.asm_header_matches_policy <=> asm.has_mem_block)
            /\ tm = "false" => (row.asm_header_matches_policy <=> asm.has_tile_block)
            /\ tm = "unknown" =>
                   (row.asm_header_matches_policy <=> (asm.has_mem_block \/ asm.has_tile_block))
            /\ (tm = "true" /\ ~asm.has_mem_block) => ~row.strict_vectorized

\* a kernel lowered with touches_memory true whose only header is tile-oriented and
\* whose other evidence is complete
C6_Witness ==
    \E i \in Rows_ :
        /\ TouchesMemory(chosen_rows[i]) = "true"
        /\ kernel_rows[i].status = "lowered"
        /\ startswith(kernel_rows[i].reason, "lowered_vblock")
        /\ kernel_rows[i].asm_has_tile_header
        /\ ~kernel_rows[i].asm_has_mem_header
        /\ kernel_rows[i].asm_has_vec_insn
        /\ kernel_rows[i].asm_has_btext
        /\ ~kernel_rows[i].strict_vectorized

RECURSIVE SumOver(_, _)
SumOver(f, keys) == IF keys = <<>> THEN 0 ELSE f[Head(keys)] + SumOver(f, Tail(keys))

SevenBuckets ==
    { "loop_removed_before_pass", "unsupported_value_expression", "non_affine_address",
      "inner_control_flow", "reductions_live_out", "no_store_loops", "other" }

\* the bucket lists of the gap plan that hold kernel k
ListsHolding(gap, k) == {b \in DOMAIN gap.buckets : k \in Range(gap.buckets[b])}

\* C8: in the gap plan written, the bucket lists are those of the seven fixed buckets;
\* a kernel that is not strict_vectorized is in exactly one of them and a
\* strict_vectorized kernel in none; the bucket counts are the list lengths and sum
\* to the non-vectorized count; each kernel-plan entry carries the bucket whose list
\* holds its kernel and that bucket's fixed action.
C8_GapPlanPartition ==
    gap_plan_out # <<>> =>
        LET gap == gap_plan_out[1] IN
        /\ DOMAIN gap.buckets = SevenBuckets
        /\ DOMAIN gap.bucket_counts = SevenBuckets
        /\ \A i \in Rows_ :
               Cardinality(ListsHolding(gap, kernel_rows[i].kernel))
                   = IF kernel_rows[i].strict_vectorized THEN 0 ELSE 1
        /\ \A b \in SevenBuckets : gap.bucket_counts[b] = Len(gap.buckets[b])
        /\ SumOver(gap.bucket_counts, _GAP_BUCKET_ORDER) = gap.non_vectorized_kernels
        /\ gap.non_vectorized_kernels
               = Cardinality({i \in Rows_ : ~kernel_rows[i].strict_vectorized})
        /\ Len(gap.kernel_plan) = gap.non_vectorized_kernels
        /\ \A j \in 1..Len(gap.kernel_plan) :
               LET e == gap.kernel_plan[j] IN
               /\ ListsHolding(gap, e.kernel) = {e.bucket}
               /\ e.next_action = _GAP_BUCKET_ACTIONS[e.bucket]

\* a gap plan of a run with a strict_vectorized kernel beside a kernel listed twice,
\* both of its entries in the unsupported_value_expression bucket
C8_Witness ==
    /\ gap_plan_out # <<>>
    /\ gap_plan_out[1].vectorized_kernels >= 1
    /\ gap_plan_out[1].bucket_counts["unsupported_value_expression"] = 2

FourReports == <<"json_out", "remarks_summary_out", "gap_plan_out", "report">>

\* C9: the gate is evaluated only with the coverage JSON, the remarks summary, the
\* gap plan and the markdown report written, in that order; the analyzer returns 2
\* exactly when a minimum is given and the strict count is below it, and 0 otherwise,
\* the four reports being there in both cases.
C9_ReportsBeforeGate ==
    /\ pc \in {"gate", "done"} =>
           /\ written = FourReports
           /\ json_out # <<>> /\ remarks_summary_out # <<>>
           /\ gap_plan_out # <<>> /\ report # <<>>
    /\ pc \notin {"done", "fatal"} => exit_code = <<>>
    /\ pc = "done" =>
           LET count == Cardinality({i \in Rows_ : kernel_rows[i].strict_vectorized}) IN
           /\ json_out[1].vectorized = count
           /\ exit_code = IF args.fail_under # <<>> /\ count < args.fail_under[1]
                           THEN <<2>> ELSE <<0>>

\* a run failed by the gate with one strict_vectorized kernel, its reports written
C9_Witness ==
    /\ pc = "done"
    /\ exit_code = <<2>>
    /\ Len(vectorized) = 1
    /\ written = FourReports

\* whether rule i of the ordered rule list matches the stripped reason t
RuleMatches(i, t) ==
    CASE i = 1 -> t \in {"no_loop_candidate", "no_tripcount_expr", "tripcount_expand_failed"}
      [] i = 2 -> startswith(t, "unsupported_value_expr:")
      [] i = 3 -> contains(t, "non_affine") \/ t = "unsupported_store_stride"
      [] i = 4 -> t \in { "inner_control_flow", "complex_control_flow", "not_innermost_loop",
                          "not_loop_simplify", "preheader_not_simple_branch",
                          "unsupported_inner_backedge", "unsupported_branch_condition",
                          "unsupported_branch_predicate", "unsupported_branch_fcmp_condition",
                          "unsupported_terminator" }
      [] i = 5 -> t \in { "value_live_out", "unsupported_reduction_kind",
                          "unsupported_reduction_init", "unsupported_reduction_value" }
      [] i = 6 -> t = "no_store_in_loop"
      [] OTHER -> TRUE

\* C7: every reason maps to one of the seven buckets: the bucket of the first rule,
\* in the order loop_removed_before_pass, unsupported_value_expression,
\* non_affine_address, inner_control_flow, reductions_live_out, no_store_loops,
\* other, that matches it; an empty or unrecognised reason maps to other.
C7_FirstMatchingRuleWins ==
    bk_pc = "mapped" =>
        LET t == strip(bk_reason)
            first == CHOOSE i \in 1..7 : RuleMatches(i, t) /\ \A j \in 1..(i - 1) : ~RuleMatches(j, t)
        IN  /\ bk_bucket \in SevenBuckets
            /\ bk_bucket = _GAP_BUCKET_ORDER[first]
            /\ (t = "" \/ \A i \in 1..6 : ~RuleMatches(i, t)) => bk_bucket = "other"

\* a reason matching both the value-expression rule and the non-affine rule, mapped
\* to the earlier bucket
C7_Witness ==
    /\ bk_pc = "mapped"
    /\ startswith(strip(bk_reason), "unsupported_value_expr:")
    /\ contains(bk_reason, "non_affine")
    /\ bk_bucket = "unsupported_value_expression"

\* a gate failed: the analyzer of some mode, or the checksum comparator, returned 2
GateFailed == drv.analyzer_returncode = <<2>> \/ drv.compare_returncode = <<2>>

\* the four reports of every mode the run has reached
PerModeReports ==
    UNION { {CoverageMd(drv.modes[i]), CoverageJson(drv.modes[i]),
             RemarksSummaryJson(drv.modes[i]), GapPlanJson(drv.modes[i])} :
            i \in 1..drv.mode_idx }

LatestCopies == {LatestCoverageMd, LatestCoverageJson, LatestRemarksSummary, LatestGapPlan}

\* C10: when a gate fails during a run_tsvc run (strict coverage below the minimum
\* for some mode, or the checksum comparison failing under fail-on-mismatch), the run
\* exits non-zero and all its reports are written all the same: the per-mode reports,
\* the mode-independent copies of the selected mode's reports, the gate result JSON
\* and the run summary.
C10_GateFailureStillWritesReports ==
    (drv.pc = "exited" /\ GateFailed) =>
        /\ drv.exit # <<0>>
        /\ PerModeReports \subseteq drv.wrote
        /\ LatestCopies \subseteq drv.wrote
        /\ LatestGateJson \in drv.wrote
        /\ SummaryMd \in drv.wrote

\* C11 (analyzer): the analyzer ends with 2 when the strict count is below the
\* minimum and with 1 when a required input is missing or the kernel list is empty.
C11_AnalyzerGateCode ==
    /\ pc = "fatal" => exit_code = <<1>>
    /\ (pc = "done" /\ args.fail_under # <<>>
            /\ Cardinality({i \in Rows_ : kernel_rows[i].strict_vectorized})
                   < args.fail_under[1]) => exit_code = <<2>>

\* C11 (comparator): the comparator ends with 2 when the comparison is not ok under
\* --fail-on-mismatch and with 1 when a file it was given does not exist.
C11_ComparatorGateCode ==
    cmp.pc = "exited" =>
        /\ cmp.error # "" => cmp.exit = <<1>>
        /\ (cmp.error = "" /\ cmp.args.fail_on_mismatch /\ ~cmp.payload[1].ok)
               => cmp.exit = <<2>>

\* C11: a run that fails only because a gate failed (coverage below the configured
\* minimum, or the checksum comparison failing under fail-on-mismatch) terminates with
\* the reserved exit code 2, which differs from the generic code 1 of fatal
\* precondition errors; stated here for the run_tsvc driver, whose analyzer or
\* comparator child returned 2.
C11_DriverGateCode ==
    drv.pc = "exited" =>
        /\ GateFailed => drv.exit = <<2>>
        /\ (~GateFailed /\ drv.error # "") => drv.exit = <<1>>

\* the kernels compared by the comparator, as a set
Compared == Range(cmp.kernels)

\* C12: the comparator reports as missing_in_baseline (missing_in_candidate) exactly the
\* compared kernels without a row in the baseline (candidate) log, as mismatches exactly
\* the compared kernels with a row in both logs whose checksum tokens differ, each with
\* both checksum values, and ok is true if and only if the three lists are empty.
C12_MissingAndMismatchLists ==
    cmp.payload # <<>> =>
        LET p == cmp.payload[1] IN
        /\ Range(p.missing_in_baseline) = {k \in Compared : k \notin DOMAIN cmp.baseline_rows}
        /\ Range(p.missing_in_candidate) = {k \in Compared : k \notin DOMAIN cmp.candidate_rows}
        /\ {m.kernel : m \in Range(p.checksum_mismatches)} =
               {k \in Compared :
                   /\ k \in DOMAIN cmp.baseline_rows
                   /\ k \in DOMAIN cmp.candidate_rows
                   /\ cmp.baseline_rows[k].checksum # cmp.candidate_rows[k].checksum}
        /\ \A m \in Range(p.checksum_mismatches) :
               /\ m.baseline_checksum = cmp.baseline_rows[m.kernel].checksum
               /\ m.candidate_checksum = cmp.candidate_rows[m.kernel].checksum
        /\ p.ok <=> (/\ p.missing_in_baseline = <<>>
                     /\ p.missing_in_candidate = <<>>
                     /\ p.checksum_mismatches = <<>>)

\* kernel s000 with 0x1 against 0x2 and another kernel missing from the candidate: one
\* mismatch entry with both values, one missing entry, ok false
C12_Witness ==
    /\ cmp.payload # <<>>
    /\ "s000" \in DOMAIN cmp.baseline_rows /\ "s000" \in DOMAIN cmp.candidate_rows
    /\ cmp.baseline_rows["s000"].checksum = "0x1"
    /\ cmp.candidate_rows["s000"].checksum = "0x2"
    /\ Len(cmp.payload[1].checksum_mismatches) = 1
    /\ cmp.payload[1].checksum_mismatches[1].baseline_checksum = "0x1"
    /\ cmp.payload[1].checksum_mismatches[1].candidate_checksum = "0x2"
    /\ cmp.payload[1].missing_in_candidate = <<"s1">>
    /\ ~cmp.payload[1].ok

\* the payload of the run with the two log arguments exchanged
SwappedPayload ==
    LET baseline_rows == _parse_log(match_lines(cmp.args.candidate[1]))
        candidate_rows == _parse_log(match_lines(cmp.args.baseline[1]))
        kernel_filter ==
            IF cmp.args.kernel_list = <<>> THEN <<>>
            ELSE <<_read_kernel_list(cmp.args.kernel_list[1][1])>>
    IN  compare_payload(baseline_rows, candidate_rows,
                        compared_kernels(baseline_rows, candidate_rows, kernel_filter))

\* the mismatching kernels of a payload, each with its unordered pair of checksums
MismatchPairs(p) ==
    { <<m.kernel, {m.baseline_checksum, m.candidate_checksum}>> :
        m \in Range(p.checksum_mismatches) }

\* C13: exchanging the baseline and the candidate log gives the same mismatching
\* kernels with the same unordered pair of checksums each, the two missing lists
\* exchanged, and the same ok, with or without a kernel list.
C13_SwapSymmetric ==
    cmp.payload # <<>> =>
        LET p == cmp.payload[1]
            q == SwappedPayload
        IN  /\ MismatchPairs(q) = MismatchPairs(p)
            /\ q.missing_in_baseline = p.missing_in_candidate
            /\ q.missing_in_candidate = p.missing_in_baseline
            /\ q.ok = p.ok

\* a comparison with a mismatch and a kernel missing from one log only
C13_Witness ==
    /\ cmp.payload # <<>>
    /\ cmp.payload[1].checksum_mismatches # <<>>
    /\ cmp.payload[1].missing_in_baseline = <<>>
    /\ cmp.payload[1].missing_in_candidate # <<>>
    /\ SwappedPayload.missing_in_baseline # <<>>

\* line.split(): the maximal runs of non-whitespace characters of a line
RECURSIVE TokensFrom(_, _, _)
TokensFrom(line, i, token) ==
    LET done == IF token = "" THEN <<>> ELSE <<token>> IN
    IF i > Len(line) THEN done
    ELSE IF SubSeq(line, i, i) \in Whitespace
         THEN done \o TokensFrom(line, i + 1, "")
         ELSE TokensFrom(line, i + 1, token \o SubSeq(line, i, i))

Tokens(line) == TokensFrom(line, 1, "")

Letters == DOMAIN LowerOf \cup {LowerOf[c] : c \in DOMAIN LowerOf}

\* a letter or an underscore, then letters, digits and underscores
IsIdentifier(token) ==
    /\ token # ""
    /\ SubSeq(token, 1, 1) \in Letters \cup {"_"}
    /\ \A i \in 1..Len(token) : SubSeq(token, i, i) \in Letters \cup Digits \cup {"_"}

\* the lines of a log that count: three tokens, the first an identifier other than Loop
CountedLines(log) ==
    SelectSeq(log, LAMBDA line :
        /\ Len(Tokens(line)) = 3
        /\ IsIdentifier(Tokens(line)[1])
        /\ Tokens(line)[1] # "Loop")

\* what the claim says a log parses to: for every kernel of a counted line, the time
\* and the checksum of the first counted line of that kernel
FirstRows(log) ==
    LET counted == CountedLines(log) IN
    [k \in {Tokens(counted[i])[1] : i \in 1..Len(counted)} |->
        LET first == CHOOSE i \in 1..Len(counted) :
                         /\ Tokens(counted[i])[1] = k
                         /\ \A j \in 1..(i - 1) : Tokens(counted[j])[1] # k
        IN  [time |-> Tokens(counted[first])[2], checksum |-> Tokens(counted[first])[3]]]

\* C14: parsing a log, the comparator ignores every line that is not exactly three
\* whitespace-separated tokens with an identifier-shaped first token, ignores the rows
\* whose first token is Loop, and keeps for each kernel the time and the checksum of
\* its first row only.
C14_ParseKeepsFirstCountedRow ==
    cmp.pc \in {"compare", "write_json", "write_report", "gate"} =>
        /\ cmp.baseline_rows = FirstRows(cmp.args.baseline[1])
        /\ cmp.candidate_rows = FirstRows(cmp.args.candidate[1])

\* a parsed log with the header, a kernel on two rows with different checksums and a
\* two-token line: the first row of the kernel is kept, the rest ignored
C14_Witness ==
    /\ cmp.pc = "compare"
    /\ cmp.args.candidate[1] = HarnessLog
    /\ DOMAIN cmp.candidate_rows = {"s000", "_k"}
    /\ cmp.candidate_rows["s000"] = [time |-> "0.1", checksum |-> "0x1"]
    /\ cmp.args.baseline[1] = <<"s-1 0.3 0x1", " s1\t0.3  0x1 ">>
    /\ DOMAIN cmp.baseline_rows = {"s1"}

\* C15: a comparator that got to compare its logs exits with 2 if and only if
\* --fail-on-mismatch is set and the comparison is not ok, and with 0 otherwise: without
\* the flag a missing kernel or a mismatch is only reported.  In both cases the JSON
\* payload and the markdown report that were asked for are written, in that order,
\* while the exit code is still undecided.  (A comparator stopped by a missing input
\* file compares nothing and ends with the generic code of C11.)
C15_ExitCodeAfterOutputs ==
    /\ (cmp.pc = "exited" /\ cmp.error = "") =>
           LET p == cmp.payload[1] IN
           /\ cmp.exit = <<2>> <=> (cmp.args.fail_on_mismatch /\ ~p.ok)
           /\ cmp.exit # <<2>> => cmp.exit = <<0>>
           /\ ~cmp.args.fail_on_mismatch => cmp.exit = <<0>>
    /\ cmp.pc \in {"gate", "exited"} /\ cmp.error = "" =>
           LET p == cmp.payload[1] IN
           /\ cmp.args.json_out => cmp.json_out = <<p>>
           /\ cmp.args.report_out =>
                  /\ cmp.report_out # <<>>
                  /\ cmp.report_out[1].status = IF p.ok THEN "PASS" ELSE "FAIL"
                  /\ cmp.report_out[1].missing_in_baseline_section = p.missing_in_baseline
                  /\ cmp.report_out[1].missing_in_candidate_section = p.missing_in_candidate
                  /\ cmp.report_out[1].checksum_mismatches = Len(p.checksum_mismatches)
           /\ cmp.written =
                  (IF cmp.args.json_out THEN <<"json_out">> ELSE <<>>)
                      \o (IF cmp.args.report_out THEN <<"report_out">> ELSE <<>>)
    /\ cmp.pc \in {"start", "parse", "compare", "write_json", "write_report", "gate"}
           => cmp.exit = <<>>

\* a comparison with a mismatch and without the flag: both outputs written, exit code 0
C15_Witness ==
    /\ cmp.pc = "exited"
    /\ cmp.exit = <<0>>
    /\ ~cmp.args.fail_on_mismatch
    /\ cmp.payload # <<>> /\ ~cmp.payload[1].ok
    /\ cmp.payload[1].checksum_mismatches # <<>>
    /\ cmp.written = <<"json_out", "report_out">>

\* no gate was asked for on the command line
NoGateEnabled == drv.args.strict_fail_under = <<>> /\ ~drv.args.fail_on_checksum_mismatch

\* the last step started is the execution of the current mode
JustExecuted ==
    /\ drv.mode_idx > 0
    /\ drv.steps[Len(drv.steps)] = <<"execute", drv.modes[drv.mode_idx]>>
    /\ drv.execution # <<>>

\* the execution went through (exit code 0 in time, both header tokens printed) but its
\* output has no checksum row for some kernel of the kernel list
LacksChecksumRow ==
    /\ JustExecuted
    /\ ~drv.execution[1].timed_out
    /\ drv.execution[1].returncode = 0
    /\ has_token(drv.execution[1].stdout, "Loop")
    /\ has_token(drv.execution[1].stdout, "Checksum")
    /\ \E k \in Range(drv.kernels) :
           \A i \in 1..Len(drv.execution[1].stdout) :
               ~(drv.execution[1].stdout[i].row /\ drv.execution[1].stdout[i].kernel = k)

\* C16: a kernel without a checksum row in the execution output of a mode is recorded
\* as data and does not by itself abort the run: with no gate enabled, the run is not
\* ended by the execution step whose output lacks the row.
C16_MissingChecksumRowIsData ==
    (NoGateEnabled /\ LacksChecksumRow) => drv.pc # "exited"

\* the execution of the current mode failed: a timeout, a non-zero exit code, or an
\* output without the Loop or the Checksum token
ExecutionFailed ==
    /\ JustExecuted
    /\ \/ drv.execution[1].timed_out
       \/ drv.execution[1].returncode # 0
       \/ ~has_token(drv.execution[1].stdout, "Loop")
       \/ ~has_token(drv.execution[1].stdout, "Checksum")

\* the steps of a mode that the run has started
StepsOf(mode) == SelectSeq(drv.steps, LAMBDA st : st[2] = mode)

\* C17: a mode whose execution fails is never classified: the run aborts, the analyzer
\* is not invoked for that mode and no later mode is built; the captured stdout and
\* stderr (the partial output at a timeout included) are in the mode's log files, and
\* the mode was executed once.
C17_FailedExecutionAborts ==
    ExecutionFailed =>
        LET mode == drv.modes[drv.mode_idx] IN
        /\ drv.pc = "exited" /\ drv.exit = <<1>>
        /\ <<"classify", mode>> \notin Range(drv.steps)
        /\ pc # "idle" => args.mode # mode
        /\ mode \notin DOMAIN drv.results
        /\ {CoverageMd(mode), CoverageJson(mode), RemarksSummaryJson(mode),
            GapPlanJson(mode)} \cap drv.wrote = {}
        /\ \A i \in (drv.mode_idx + 1)..Len(drv.modes) :
               /\ StepsOf(drv.modes[i]) = <<>>
               /\ ObjdumpTxt(drv.modes[i]) \notin drv.wrote
        /\ {QemuStdout(mode), QemuStderr(mode)} \subseteq drv.wrote
        /\ drv.files[QemuStdout(mode)] = drv.execution[1].stdout
        /\ drv.files[QemuStderr(mode)] = drv.execution[1].stderr
        /\ Len(SelectSeq(drv.steps, LAMBDA st : st = <<"execute", mode>>)) = 1

\* the second of four modes timed out with a row already printed: the row is in the
\* mode's stdout log, the first mode is classified, the later ones never started
C17_Witness ==
    /\ ExecutionFailed
    /\ drv.execution[1].timed_out
    /\ drv.mode_idx = 2 /\ Len(drv.modes) = 4
    /\ drv.modes[1] \in DOMAIN drv.results
    /\ Len(drv.files[QemuStdout(drv.modes[2])]) = 2

\* the requested modes in the order off, mseq, mpar, auto
RequestedModes ==
    SelectSeq(<<"off", "mseq", "mpar", "auto">>,
              LAMBDA m : drv.args.vector_mode \in {"all", m})

\* the steps of one mode, in order; the execution is there unless --no-run-qemu
ModeSteps(mode) ==
    <<<<"compile", mode>>, <<"link", mode>>, <<"disassemble", mode>>>>
        \o (IF drv.args.no_run_qemu THEN <<>> ELSE <<<<"execute", mode>>>>)
        \o <<<<"classify", mode>>>>

\* the steps of a whole run, in order
RunSteps ==
    <<<<"stage", "">>, <<"runtime", "">>>> \o Flatten(Map(RequestedModes, ModeSteps))

\* the step of a started run at position i has, written or built, what it works on
InputsReady(i) ==
    LET name == drv.steps[i][1]
        mode == drv.steps[i][2]
    IN  /\ name = "compile" =>
               /\ drv.steps[1] = <<"stage", "">>
               /\ KernelListTxt \in drv.wrote
        /\ (name = "compile" /\ i > 3) =>
               LET earlier == drv.steps[i - 1][2] IN
               /\ drv.steps[i - 1] = <<"classify", earlier>>
               /\ earlier \in DOMAIN drv.results
               /\ {CoverageMd(earlier), CoverageJson(earlier),
                   RemarksSummaryJson(earlier), GapPlanJson(earlier)} \subseteq drv.wrote
        /\ name \in {"execute", "classify"} => ObjdumpTxt(mode) \in drv.wrote
        /\ (name = "classify" /\ ~drv.args.no_run_qemu) =>
               /\ {QemuStdout(mode), QemuStderr(mode)} \subseteq drv.wrote
               /\ drv.steps[i - 1] = <<"execute", mode>>
        /\ (name = "link" /\ mode # "off" /\ drv.args.toolchain = "remarking") =>
               RawRemarks(mode) \in drv.wrote

\* C18: a run is strictly sequential: staging and the kernel-list file come before any
\* mode is built; the modes are processed one at a time in the order off, mseq, mpar,
\* auto, restricted to the requested ones; within a mode the steps compile, link,
\* disassemble, optional execute, classify come in that order, each after the previous
\* one wrote its output; no step of a later mode starts before the classification of
\* the earlier mode has finished.
C18_StrictlySequential ==
    drv.pc # "idle" =>
        /\ Len(drv.steps) <= Len(RunSteps)
        /\ drv.steps = SubSeq(RunSteps, 1, Len(drv.steps))
        /\ \A i \in 1..Len(drv.steps) : InputsReady(i)
        /\ pc \notin {"idle", "done", "fatal"} =>
               /\ drv.pc = "analyzing"
               /\ drv.steps[Len(drv.steps)] = <<"classify", args.mode>>

\* a finished run of all four modes with execution: twenty-two steps in order
C18_Witness ==
    /\ drv.pc = "exited" /\ drv.exit = <<0>>
    /\ drv.args.vector_mode = "all" /\ ~drv.args.no_run_qemu
    /\ drv.steps = RunSteps
    /\ Len(drv.steps) = 22

\* kernel k has one checksum in the execution of mode a and another in that of mode b
ChecksumsDiffer(a, b, k) ==
    /\ a \in DOMAIN drv.results /\ b \in DOMAIN drv.results
    /\ drv.results[a].checksums # <<>> /\ drv.results[b].checksums # <<>>
    /\ k \in DOMAIN drv.results[a].checksums[1]
    /\ k \in DOMAIN drv.results[b].checksums[1]
    /\ drv.results[a].checksums[1][k] # drv.results[b].checksums[1][k]

\* the kernels that a checksum report written by the run lists as mismatches
ReportedMismatches ==
    UNION { {m.kernel : m \in Range(drv.files[n].checksum_mismatches)} :
            n \in {f \in drv.wrote : \E mode \in Range(drv.modes) :
                                        f \in {ChecksumJson(mode), ChecksumMd(mode)}} }

\* C19: a run that builds and executes both the disabled mode and a vectorized mode
\* verifies checksum parity between them: a kernel whose checksum differs between the
\* off build and the vectorized build is reported as a mismatch by that run, once
\* the run has gone through all its modes.
C19_ParityBetweenModes ==
    (drv.pc = "exited" /\ drv.exit = <<0>>) =>
        \A mode \in {"mseq", "mpar", "auto"}, k \in Range(drv.kernels) :
            ChecksumsDiffer("off", mode, k) => k \in ReportedMismatches

\* the orderings of a set of function names: every name exactly once
Orderings(S) ==
    { order \in [1..Cardinality(S) -> S] :
        \A i, j \in 1..Cardinality(S) : order[i] = order[j] => i = j }

\* C20: the closure of a kernel holds exactly the root function and every function
\* reachable from it through b.text targets that name an existing function, each
\* exactly once, the root first; a target that names no function is dropped, and the
\* expansion ends on self-recursive and mutually recursive transfers.
C20_ClosureExactlyReachableOnce ==
    \A k \in DOMAIN kernel_out :
        /\ Resolved(k)
        /\ \E order \in Orderings(Closure(k)) :
               /\ order[1] = asm_by_kernel[k].resolved_symbol[1]
               /\ kernel_out[k] = Flatten(Map(order, LAMBDA n : args.functions[n]))

\* a root that transfers to itself, to a helper and to a name of no function, the
\* helper and a third function transferring to each other: a closure of three
C20_Witness ==
    \E k \in DOMAIN kernel_out :
        LET root == asm_by_kernel[k].resolved_symbol[1]
            targets(n) == Range(btext_targets(args.functions[n]))
        IN  /\ Cardinality(Closure(k)) = 3
            /\ Len(kernel_out[k]) = 4
            /\ targets(root) \cap {"nowhere", "s1"} # {}
            /\ "g" \in targets("h") /\ "h" \in targets("g")

\* the function a kernel stands for: its bare name, else the name with one leading
\* underscore, else none
SymbolOf(k) ==
    IF k \in DOMAIN args.functions THEN <<k>>
    ELSE IF ("_" \o k) \in DOMAIN args.functions THEN <<"_" \o k>>
    ELSE <<>>

\* C21: a kernel resolves to the function of its bare name when there is one, else to
\* the function named with one leading underscore when there is one, else to no symbol;
\* an unresolved kernel is no error: it is listed in missing_functions, has all four
\* evidence flags false, and the other kernels are analysed all the same.
C21_ResolutionOrderAndMissing ==
    /\ \A k \in DOMAIN asm_by_kernel :
           LET asm == asm_by_kernel[k] IN
           /\ asm.resolved_symbol = SymbolOf(k)
           /\ SymbolOf(k) # <<>> =>
                  /\ asm.has_mem_block = _RE_BSTART_MEM(args.functions[SymbolOf(k)[1]])
                  /\ asm.has_tile_block = _RE_BSTART_TILE(args.functions[SymbolOf(k)[1]])
                  /\ k \notin Range(missing_functions)
                  /\ k \in DOMAIN kernel_out
           /\ SymbolOf(k) = <<>> =>
                  /\ k \in Range(missing_functions)
                  /\ ~asm.has_mem_block /\ ~asm.has_tile_block
                  /\ ~asm.has_vec_insn /\ ~asm.has_btext
                  /\ k \notin DOMAIN kernel_out
    /\ pc \in {"remarks", "classify", "write_json", "write_remarks", "write_gap",
               "write_report", "gate", "done"} =>
           /\ DOMAIN asm_by_kernel = Range(kernels)
           /\ exit_code \in {<<>>, <<0>>, <<2>>}
    /\ pc = "done" =>
           /\ Len(kernel_rows) = Len(kernels)
           /\ \A i \in Rows_ : kernel_rows[i].resolved_symbol = SymbolOf(kernels[i])
           /\ json_out[1].missing_functions = missing_functions

\* a finished run whose first kernel has a function only under two leading underscores
\* and stays unresolved, while the second kernel is classified strict_vectorized
C21_Witness ==
    /\ pc = "done"
    /\ kernels = <<"s1", "s2">>
    /\ DOMAIN args.functions = {"__s1", "s2"}
    /\ missing_functions = <<"s1">>
    /\ kernel_rows[2].strict_vectorized
    /\ exit_code = <<0>>

\* the lines of the remarks file that hold a JSON object, in file order; none when no
\* file was named or the named file does not exist
RecordLines ==
    IF args.remarks.given /\ args.remarks.exists
    THEN SelectSeq(args.remarks.lines, LAMBDA l : l.kind = "object")
    ELSE <<>>

\* the function name of a record line, stripped; "" when the record has none
NameOf(l) == IF "function" \in DOMAIN l.payload THEN strip(l.payload.function) ELSE ""

\* C22: remark ingestion never fails on bad input: blank lines, lines that are no JSON
\* and JSON values that are no objects are skipped, a missing or unnamed remarks file
\* gives an empty mapping, and the records left are grouped by function name in the
\* record order of the file.
C22_RemarksSkippedAndGrouped ==
    /\ pc = "fatal" =>
           \/ ~args.objdump_exists \/ ~args.kernel_list_exists
           \/ _read_kernel_list(args.kernel_lines) = <<>>
    /\ pc \in {"classify", "write_json", "write_remarks", "write_gap", "write_report",
               "gate", "done"} =>
           /\ DOMAIN by_function = {NameOf(RecordLines[i]) : i \in 1..Len(RecordLines)} \ {""}
           /\ \A fn \in DOMAIN by_function :
                  by_function[fn] =
                      Map(SelectSeq(RecordLines, LAMBDA l : NameOf(l) = fn),
                          LAMBDA l : l.payload)
           /\ (~args.remarks.given \/ ~args.remarks.exists) => DOMAIN by_function = {}

\* a record of s1, a line that is no JSON, another record of s1: both records grouped
\* under s1 in file order
C22_Witness ==
    /\ pc = "classify"
    /\ Len(args.remarks.lines) = 3
    /\ args.remarks.lines[1].kind = "object"
    /\ args.remarks.lines[2].kind = "invalid"
    /\ args.remarks.lines[3].kind = "object"
    /\ "s1" \in DOMAIN by_function
    /\ by_function["s1"] = <<args.remarks.lines[1].payload, args.remarks.lines[3].payload>>
    /\ by_function["s1"][1].status = "reject"
    /\ by_function["s1"][2].status = "lowered"

(***************************************************************************)
(* Staging properties                                                      *)
(***************************************************************************)
\* the kernels named at the call sites of the source, one per call site, in text order
SourceSites == call_sites(stg.src.tsvc_c)

FirstSite(k) == CHOOSE i \in 1..Len(SourceSites) :
                    SourceSites[i] = k /\ \A j \in 1..(i - 1) : SourceSites[j] # k

\* the filter of the run accepts the kernel (no filter accepts every kernel)
FilterAccepts(k) ==
    \/ stg.args.kernel_regex = <<>>
    \/ stg.args.kernel_regex[1].text = ""
    \/ contains(k, stg.args.kernel_regex[1].text)

\* C23: the staged kernel list holds each kernel named at a harness call site exactly
\* once, ordered by first occurrence in the source; under a kernel filter it holds
\* exactly the accepted ones in that same order; and a filter that accepts no kernel
\* ends the run with an error while the staged tsvc.c is still the plain copy and the
\* kernel list file is untouched.
C23_KernelListOrderAndFilter ==
    /\ stg.pc \in {"kernel_list", "staged"} =>
          /\ Range(stg.kernels) = {k \in Range(SourceSites) : FilterAccepts(k)}
          /\ \A i, j \in 1..Len(stg.kernels) :
                i < j => FirstSite(stg.kernels[i]) < FirstSite(stg.kernels[j])
          /\ stg.wrote_tsvc_c
    /\ stg.pc = "staged" => stg.kernel_list = <<stg.kernels>>
    /\ stg.pc # "staged" => stg.kernel_list = stg.before.kernel_list
    /\ ( /\ stg.pc \notin {"idle", "start", "header", "source", "kernels"}
         /\ SourceSites # <<>>
         /\ stg.args.kernel_regex # <<>>
         /\ stg.args.kernel_regex[1].valid
         /\ \A k \in Range(SourceSites) : ~FilterAccepts(k) ) =>
          /\ stg.pc = "exited"
          /\ stg.exit = <<1>>
          /\ stg.error = "--kernel-regex matched 0 kernels"
          /\ ~stg.wrote_tsvc_c
          /\ stg.stage.tsvc_c = stg.src.tsvc_c
          /\ stg.kernels = <<>>

C23_Witness ==
    /\ stg.pc = "staged"
    /\ SourceSites = <<"s2", "s1", "s2">>
    /\ stg.args.kernel_regex = <<[valid |-> TRUE, text |-> "2"]>>
    /\ stg.kernel_list = << <<"s2">> >>
    /\ stg.before.kernel_list = << <<"old">> >>

\* the value the run configures for a macro of common.h
ConfiguredValue(macro) ==
    IF macro = "iterations" THEN stg.args.iterations
    ELSE IF macro = "LEN_1D" THEN stg.args.len_1d ELSE stg.args.len_2d

StagedMacros == {"iterations", "LEN_1D", "LEN_2D"}

\* the definitions of the macro in the source header that the rewrite pattern matches
MatchingDefines(macro) ==
    {i \in 1..Len(stg.src.common_h) :
        /\ stg.src.common_h[i].kind = "define"
        /\ stg.src.common_h[i].macro = macro
        /\ stg.src.common_h[i].value # <<>>}

TimingBodies == Len(SelectSeq(stg.src.tsvc_c, LAMBDA l : l.kind = "time_function"))

StagingMustFail ==
    \/ \E m \in StagedMacros : MatchingDefines(m) = {}
    \/ TimingBodies # 1
    \/ stg.args.source_policy \notin Range(_SOURCE_POLICIES)

\* C24: a header lacking a matching definition of iterations, LEN_1D or LEN_2D, a
\* source whose time_function body pattern occurs zero times or more than once, and
\* an unknown source-policy tag each end staging with an error, no kernels returned
\* and the kernel list file untouched; after a successful staging every definition
\* the pattern matched holds the configured value and every other line is as copied.
C24_StagingFatalOrMacrosRewritten ==
    /\ (StagingMustFail /\ stg.pc \notin {"idle", "start", "header", "source"}) =>
          /\ stg.pc = "exited"
          /\ stg.exit = <<1>>
          /\ stg.error # ""
          /\ stg.kernels = <<>>
          /\ stg.kernel_list = stg.before.kernel_list
          /\ ~stg.wrote_tsvc_c
    /\ stg.pc \in {"kernel_list", "staged"} =>
          /\ ~StagingMustFail
          /\ Len(stg.stage.common_h) = Len(stg.src.common_h)
          /\ \A i \in 1..Len(stg.src.common_h) :
                IF \E m \in StagedMacros : i \in MatchingDefines(m)
                THEN stg.stage.common_h[i] =
                        HeaderDefine(stg.src.common_h[i].macro,
                                     <<ConfiguredValue(stg.src.common_h[i].macro)>>)
                ELSE stg.stage.common_h[i] = stg.src.common_h[i]

C24_Witness ==
    /\ stg.pc = "exited"
    /\ stg.error = "expected to patch exactly 1 time_function"
    /\ TimingBodies = 2
    /\ Cardinality(MatchingDefines("LEN_1D")) = 2
    /\ stg.args.source_policy = "linx-v03-parity"
    /\ stg.kernel_list = << <<"old">> >>

(***************************************************************************)
(* Compiler flags of a mode                                                *)
(***************************************************************************)
StrategyOfTag == [mseq |-> "mseq", mpar |-> "mpar-safe", auto |-> "auto"]

\* the flags the specification gives for a vectorizing mode and an optional remarks path
VectorizingFlags(mode, remarks_jsonl) ==
    <<"-fno-vectorize", "-fno-slp-vectorize", "-mllvm", "-linx-simt-autovec=1",
      "-mllvm", "-linx-simt-autovec-mode=" \o StrategyOfTag[mode]>>
    \o (IF remarks_jsonl = <<>> THEN <<>>
        ELSE <<"-mllvm", "-linx-simt-autovec-remarks=" \o remarks_jsonl[1]>>)

DisabledFlags == <<"-fno-vectorize", "-fno-slp-vectorize", "-mllvm", "-linx-simt-autovec=0">>

ModeTags == Range(_VECTOR_MODES) \cup {"all", "", "mpar-safe", "OFF"}

RemarksPaths == {<<>>} \cup {<<RawRemarks(m)>> : m \in Range(_VECTOR_MODES)}

\* C25: the flags are a function of the mode tag alone (and of the remarks path for
\* the vectorizing modes): off gives the disabling flags and no remarks flag whatever
\* path is given; mseq, mpar and auto give strategies mseq, mpar-safe and auto and pass
\* the remarks path exactly when one is given; every other tag is an error with no
\* flags; and the flags a run compiles tsvc.c with are these.
C25_FlagsOfMode ==
    /\ \A mode \in ModeTags, remarks_jsonl \in RemarksPaths :
          LET got == _mode_compile_flags(mode, remarks_jsonl) IN
          IF mode = "off" THEN ~got.error /\ got.flags = DisabledFlags
          ELSE IF mode \in DOMAIN StrategyOfTag
          THEN ~got.error /\ got.flags = VectorizingFlags(mode, remarks_jsonl)
          ELSE got.error /\ got.flags = <<>>
    /\ ( /\ drv.pc # "idle"
         /\ drv.steps # <<>>
         /\ drv.steps[Len(drv.steps)][1] = "compile" ) =>
          LET mode == drv.steps[Len(drv.steps)][2] IN
          /\ mode \in Range(_VECTOR_MODES)
          /\ drv.error # "unsupported vector mode"
          /\ drv.extra_cflags =
                IF mode = "off" THEN DisabledFlags
                ELSE VectorizingFlags(mode, <<RawRemarks(mode)>>)

C25_Witness ==
    /\ drv.pc = "link"
    /\ drv.steps[Len(drv.steps)] = <<"compile", "mpar">>
    /\ Len(drv.extra_cflags) = 8
    /\ drv.extra_cflags[6] = "-linx-simt-autovec-mode=mpar-safe"
    /\ drv.extra_cflags[8] = "-linx-simt-autovec-remarks=vectorization_remarks_raw.mpar.jsonl"

(***************************************************************************)
(* Coverage percentage                                                     *)
(***************************************************************************)
Abs(n) == IF n < 0 THEN 0 - n ELSE n

\* C26: the coverage percentage of the coverage JSON is the hundredth of a percent
\* nearest to 100 * vectorized / total, lies between 0 and 100, and is computed with a
\* non-zero total in every run that writes the report (an empty kernel list ends the
\* run before).
C26_CoverageRoundedToHundredths ==
    json_out # <<>> =>
        LET p == json_out[1] IN
        /\ p.total > 0
        /\ p.total = Len(kernels)
        /\ p.vectorized = Len(vectorized)
        /\ p.coverage_percent \in 0..10000
        /\ 2 * Abs(p.coverage_percent * p.total - 10000 * p.vectorized) <= p.total

C26_Witness ==
    /\ pc = "done"
    /\ json_out # <<>>
    /\ json_out[1].total = 3
    /\ json_out[1].vectorized = 2
    /\ json_out[1].coverage_percent = 6667

\* C26 as stated: the reported percentage is exactly 100 * vectorized / total
C26_CoverageExact ==
    json_out # <<>> =>
        json_out[1].coverage_percent * json_out[1].total = 10000 * json_out[1].vectorized

\* C27: a kernel is strict_vectorized only if one of its remarks has status lowered
\* and carries a reason field that begins with lowered_vblock; a lowered remark
\* without a reason field credits no kernel.
C27_StrictNeedsVblockRemark ==
    \A i \in Rows_ :
        kernel_rows[i].strict_vectorized =>
            \E j \in 1..Len(LoweredOf(kernel_rows[i].kernel)) :
                HasVblockPrefix(LoweredOf(kernel_rows[i].kernel)[j])

\* the occurrences of a name in a sequence of names
Occurrences(names, k) == Cardinality({i \in 1..Len(names) : names[i] = k})

\* C28: once the kernels are classified every kernel-list entry is in exactly one of
\* the vectorized and non-vectorized lists (a name listed n times is n times in one
\* list and not at all in the other), so the two counts add up to the total and the
\* vectorized count is at most the total; every kernel of missing_functions is in the
\* non-vectorized list; and the remarks summary holds one row per kernel-list entry
\* in kernel-list order, as do the counts of the coverage JSON.
C28_ListsPartitionKernels ==
    /\ pc \in {"write_json", "write_remarks", "write_gap", "write_report", "gate", "done"} =>
          /\ Len(vectorized) + Len(non_vectorized) = Len(kernels)
          /\ Len(vectorized) <= Len(kernels)
          /\ Range(vectorized) \cap Range(non_vectorized) = {}
          /\ \A k \in Range(kernels) :
                Occurrences(vectorized, k) + Occurrences(non_vectorized, k)
                    = Occurrences(kernels, k)
          /\ \A k \in Range(missing_functions) :
                k \in Range(non_vectorized) /\ k \notin Range(vectorized)
          /\ Len(kernel_rows) = Len(kernels)
          /\ \A i \in 1..Len(kernels) :
                /\ kernel_rows[i].kernel = kernels[i]
                /\ kernel_rows[i].strict_vectorized <=> kernels[i] \in Range(vectorized)
    /\ remarks_summary_out # <<>> =>
          /\ Len(remarks_summary_out[1].rows) = Len(kernels)
          /\ \A i \in 1..Len(kernels) : remarks_summary_out[1].rows[i].kernel = kernels[i]
          /\ remarks_summary_out[1].total_kernels = Len(kernels)
    /\ json_out # <<>> =>
          /\ json_out[1].vectorized + json_out[1].non_vectorized = json_out[1].total
          /\ json_out[1].total = Len(kernels)
          /\ json_out[1].vectorized_kernels = vectorized
          /\ json_out[1].non_vectorized_kernels = non_vectorized

C28_Witness ==
    /\ pc = "done"
    /\ kernels = <<"s1", "s2">>
    /\ missing_functions = <<"s1">>
    /\ vectorized = <<"s2">>
    /\ non_vectorized = <<"s1">>
    /\ Len(remarks_summary_out[1].rows) = 2

\* C29: after a successful run every mode-independent file of the reports directory
\* (coverage markdown and JSON, remarks summary, gap plan, raw remarks stream, gate
\* result) holds what the selected mode of this run produced and nothing an earlier
\* run left; the selected mode is auto when auto was run and the last mode otherwise.
C29_LatestFilesOfSelectedMode ==
    (drv.pc = "exited" /\ drv.exit = <<0>>) =>
        LET mode == drv.selected_mode IN
        /\ mode = IF "auto" \in Range(drv.modes) THEN "auto" ELSE drv.modes[Len(drv.modes)]
        /\ drv.files[LatestCoverageMd] = drv.files[CoverageMd(mode)]
        /\ drv.files[LatestCoverageJson] = drv.files[CoverageJson(mode)]
        /\ drv.files[LatestRemarksSummary] = drv.files[RemarksSummaryJson(mode)]
        /\ drv.files[LatestGapPlan] = drv.files[GapPlanJson(mode)]
        /\ drv.files[LatestGateJson] = drv.files[GateJson(mode)]
        /\ LatestRawRemarks \in DOMAIN drv.files =>
              /\ LatestRawRemarks \in drv.wrote
              /\ RawRemarks(mode) \in DOMAIN drv.files
              /\ drv.files[LatestRawRemarks] = drv.files[RawRemarks(mode)]

\* C30: the analyzer run of mode off is given no remarks stream and no minimum, so it
\* classifies every kernel reject / no_remarks_for_kernel, reports zero
\* strict-vectorized kernels and never ends with the gate code, and no run is aborted
\* by the analysis of mode off; the analyzer run of each of mseq, mpar and auto is
\* given the mode's remarks stream and the configured minimum, and ends with the gate
\* code exactly when its vectorized count is below that minimum.
C30_OffModeUngated ==
    /\ args.mode = "off" =>
          /\ ~args.remarks.given
          /\ args.fail_under = <<>>
          /\ by_function = <<>>
          /\ vectorized = <<>>
          /\ pc # "fatal"
          /\ exit_code \in {<<>>, <<0>>}
          /\ \A i \in Rows_ :
                /\ kernel_rows[i].status = "reject"
                /\ kernel_rows[i].reason = "no_remarks_for_kernel"
                /\ ~kernel_rows[i].strict_vectorized
          /\ json_out # <<>> => json_out[1].vectorized = 0
    /\ args.mode \in {"mseq", "mpar", "auto"} =>
          /\ args.remarks.given
          /\ args.fail_under = drv.args.strict_fail_under
          /\ pc = "done" =>
                (exit_code = <<2>> <=>
                    (drv.args.strict_fail_under # <<>>
                        /\ Len(vectorized) < drv.args.strict_fail_under[1]))
    /\ (drv.pc = "exited" /\ drv.error = "TSVC strict coverage analysis failed") =>
          /\ CurrentMode # "off"
          /\ drv.analyzer_returncode = <<2>>
    /\ (drv.pc # "idle" /\ CoverageJson("off") \in drv.wrote) =>
          drv.files[CoverageJson("off")].vectorized = 0

C30_Witness ==
    /\ args.mode = "off"
    /\ pc = "done"
    /\ exit_code = <<0>>
    /\ drv.args.vector_mode = "all"
    /\ drv.args.strict_fail_under # <<>>
    /\ drv.args.strict_fail_under[1] > 0
    /\ Len(kernel_rows) = 2
    /\ asm_by_kernel["s1"].has_vec_insn
    /\ asm_by_kernel["s1"].has_btext

====
